---- MODULE Spec2Model ----
(***************************************************************************)
(* Model of the CForth interpreter (src/src/CForth.cpp, src/include/       *)
(* CForth.h).  The interpreter's globals are the variables; every C++      *)
(* function is an operator from interpreter state to interpreter state     *)
(* (a record holding the globals plus the function's results), and the     *)
(* driver entry points parseLine / parseFile are the actions.              *)
(*                                                                         *)
(* Text is modelled character by character: a string is a sequence of      *)
(* one-character strings.                                                  *)
(***************************************************************************)
EXTENDS Integers, Sequences, FiniteSets, TLC

\* ------------------------------------------------------------------ bounds
\* number of driver calls (parseLine / parseFile) in one run
MaxCalls == 3
\* number of tokens one driver call may execute before it is cut off and
\* reported as still running
MaxFuel == 36

\* ------------------------------------------------------------- characters
NUL == ""
SP  == " "
NL  == "\n"

Digits == <<"0","1","2","3","4","5","6","7","8","9">>
UpperChars == <<"A","B","C","D","E","F","G","H","I","J","K","L","M",
                "N","O","P","Q","R","S","T","U","V","W","X","Y","Z">>
LowerChars == <<"a","b","c","d","e","f","g","h","i","j","k","l","m",
                "n","o","p","q","r","s","t","u","v","w","x","y","z">>

\* static std::string base_chars
base_chars == Digits \o UpperChars

isspace(c) == c \in {" ", "\n", "\t"}

islower(c) == \E i \in 1..26 : LowerChars[i] = c

toupper(c) ==
  IF islower(c) THEN UpperChars[CHOOSE i \in 1..26 : LowerChars[i] = c] ELSE c

\* toUpper(const std::string &)
toUpper(str) == [i \in 1..Len(str) |-> toupper(str[i])]

\* position of c in base_chars, or 0 (std::string::npos)
BaseCharPos(c) ==
  IF \E i \in 1..36 : base_chars[i] = c
  THEN CHOOSE i \in 1..36 : base_chars[i] = c
  ELSE 0

\* isBaseChar(int c, int base, int *value): the validity
isBaseChar(c, base) ==
  /\ ~(base < 2 \/ base > 36)
  /\ BaseCharPos(toupper(c)) # 0
  /\ BaseCharPos(toupper(c)) - 1 < base

\* isBaseChar(int c, int base, int *value): *value
BaseCharValue(c) == BaseCharPos(toupper(c)) - 1

\* ------------------------------------------------------------------- Line
\* class Line: str_, pos_ (0-based), len_ = size of str_
MkLine(str) == [str |-> str, pos |-> 0]

LineIsValid(line) == line.pos < Len(line.str)

\* str_[pos_]; reading at the end of a std::string gives the NUL character
LineLookChar(line) ==
  IF line.pos >= 0 /\ line.pos < Len(line.str) THEN line.str[line.pos + 1] ELSE NUL

LineIsSpace(line) == isspace(LineLookChar(line))

RECURSIVE LineSkipSpace(_)
LineSkipSpace(line) ==
  IF line.pos < Len(line.str) /\ LineIsSpace(line)
  THEN LineSkipSpace([line EXCEPT !.pos = @ + 1])
  ELSE line

\* ------------------------------------------------------------------- File
\* the file system: the files that exist and their text, line by line
\* (every line but possibly the last ends in a newline)
w_f == <<"f">>
w_g == <<"g">>
w_h == <<"h">>
w_k == <<"k">>
w_m == <<"m">>
w_x == <<"x">>

\* class File: filename_, fp_ (open or not); off and eof are the read
\* position and the end-of-file indicator of the FILE
NoFile == [name |-> <<>>, open |-> FALSE, off |-> 0, eof |-> FALSE]

\* the text of the files that can be opened
FileText(name) ==
  CASE name = w_f -> << <<"7"," ","A","B","O","R","T"," ","8",NL>>, <<"9",NL>> >>
    [] name = w_g -> << <<"7"," ","Q","U","I","T"," ","8",NL>>, <<"9">> >>
    [] name = w_h -> << <<"7"," ","D","R","O","P"," ","D","R","O","P",NL>>, <<"9",NL>> >>
    [] name = w_k -> << <<"7"," ",".",NL>>, <<"6"," ",".",NL>> >>
    [] name = w_m -> << <<"L","O","A","D"," ","k",NL>>, <<"8"," ",".",NL>> >>
    [] OTHER -> << >>

FileExists(name) == name \in {w_f, w_g, w_h, w_k, w_m}

\* File::File(filename)
MkFile(name) == [name |-> name, open |-> FALSE, off |-> 0, eof |-> FALSE]

\* File::open: close(), then fopen(filename_, "r")
FileOpen(file) ==
  IF FileExists(file.name)
  THEN [file EXCEPT !.open = TRUE, !.off = 0, !.eof = FALSE]
  ELSE [file EXCEPT !.open = FALSE]

\* File::close
FileClose(file) == [file EXCEPT !.open = FALSE]

\* File::readLine: whether a line is read (fp_ set and not at end of file)
FileCanRead(file) == file.open /\ ~file.eof

\* File::readLine: the characters read, up to and including the newline
FileLineRead(file) ==
  IF file.off < Len(FileText(file.name)) THEN FileText(file.name)[file.off + 1] ELSE <<>>

\* File::readLine: the file afterwards; fgetc sets the end-of-file indicator
\* when it runs into the end before a newline
FileAfterRead(file) ==
  LET l == FileLineRead(file) IN
  [file EXCEPT !.off = IF file.off < Len(FileText(file.name)) THEN @ + 1 ELSE @,
               !.eof = (l = <<>>) \/ (l[Len(l)] # NL)]

\* ----------------------------------------------------------------- tokens
\* class Token and its subclasses, one record shape for all:
\*   type  "num" | "bool" | "builtin" | "var" | "ref" | "proc" | "box"
\*   name  the built-in's registered name, the procedure's name
\*   nt    a number's Number::Type: "int" | "bool" | "real"
\*   val   a number's or boolean's value; a reference's ind_
\*   id    the object's identity: a variable's, a block built-in's, a boxed
\*         (shared mutable) token's
\*   body, body2, flag, flag2, text   a built-in's compiled modifier
Token(type, name, nt, val, id, body, body2, flag, flag2, text) ==
  [type |-> type, name |-> name, nt |-> nt, val |-> val, id |-> id, body |-> body,
   body2 |-> body2, flag |-> flag, flag2 |-> flag2, text |-> text]

\* a null TokenP
NullToken == Token("null", <<>>, "", 0, 0, <<>>, <<>>, FALSE, FALSE, <<>>)

\* NumberToken::makeInteger
makeInteger(i) == Token("num", <<>>, "int", i, 0, <<>>, <<>>, FALSE, FALSE, <<>>)

\* NumberToken(Number::makeBoolean(b))
makeBooleanNumber(b) ==
  Token("num", <<>>, "bool", IF b THEN 1 ELSE 0, 0, <<>>, <<>>, FALSE, FALSE, <<>>)

\* NumberToken::makeReal: the real's value is kept as the text it was read from
makeReal(sign, str) == Token("num", <<>>, "real", sign, 0, <<>>, <<>>, FALSE, FALSE, str)

\* std::make_shared<BooleanToken>(b)
BooleanToken(b) ==
  Token("bool", <<>>, "", IF b THEN 1 ELSE 0, 0, <<>>, <<>>, FALSE, FALSE, <<>>)

\* a Builtin object registered under name
BuiltinToken(name) == Token("builtin", name, "", 0, 0, <<>>, <<>>, FALSE, FALSE, <<>>)

\* a VariableP: the variable object id
VariableToken(id) == Token("var", <<>>, "", 0, id, <<>>, <<>>, FALSE, FALSE, <<>>)

\* VariableRef(var, ind)
VariableRef(id, ind) == Token("ref", <<>>, "", ind, id, <<>>, <<>>, FALSE, FALSE, <<>>)

\* Procedure(name, tokens): the procedure object id
ProcedureToken(name, tokens, id) ==
  Token("proc", name, "", 0, id, tokens, <<>>, FALSE, FALSE, <<>>)

\* a pointer to a token object that is shared and mutated in place
BoxToken(id) == Token("box", <<>>, "", 0, id, <<>>, <<>>, FALSE, FALSE, <<>>)

\* what is found where no token object lives: the slot past the end of a
\* vector, or below its first element
GarbageToken == Token("garbage", <<>>, "", 0, 0, <<>>, <<>>, FALSE, FALSE, <<>>)

\* the outcomes of an access outside a vector that the build can produce: the
\* process is ended, or the access goes through and the run continues
Outcomes == {"crash", "garbage"}

\* <climits>
INT_MAX == 2147483647
INT_MIN == -INT_MAX - 1

\* int + int, int - int, int * int of the build: two's complement wrap-around,
\* computed without leaving the 32-bit range
AddInt32(a, b) ==
  IF b >= 0
  THEN IF a <= INT_MAX - b THEN a + b ELSE (a - INT_MAX - 1) + (b - INT_MAX - 1)
  ELSE IF a >= INT_MIN - b THEN a + b ELSE (a + INT_MAX + 1) + (b + INT_MAX + 1)

SubInt32(a, b) ==
  IF b = INT_MIN THEN AddInt32(AddInt32(a, INT_MAX), 1) ELSE AddInt32(a, -b)

RECURSIVE MulInt32(_, _)
MulInt32(a, b) ==
  IF b = 0 THEN 0
  ELSE IF b < 0 THEN SubInt32(SubInt32(0, MulInt32(a, -(b + 1))), a)
  ELSE LET h == MulInt32(a, b \div 2) IN
       IF b % 2 = 1 THEN AddInt32(AddInt32(h, h), a) ELSE AddInt32(h, h)

\* int / int of the build for a divisor that is not 0: the quotient truncated
\* toward zero (INT_MIN / -1, which overflows, is left to the callers)
DivInt32(a, b) ==
  LET pos(x, y) == IF x % y = 0 \/ x >= 0 THEN x \div y ELSE (x \div y) + 1
  IN  IF b > 0 THEN pos(a, b)
      ELSE IF b = INT_MIN THEN (IF a = INT_MIN THEN 1 ELSE 0)
      ELSE -pos(a, -b)

\* ------------------------------------------------------ interpreter state
\* The operators below take and return the interpreter state s: the globals
\* of CForth.cpp (file_, lines_, line_, tokens_, execTokens_, retTokens_,
\* variables_, procedures_, builtins_, currentVar_, lastError_), the heap of
\* shared objects (heap, nobj, leave), standard output (out), and the results
\* of the function that ran last:
\*   ret   "ok" (State::success), "err" (an error State), "abortSignal" /
\*         "quitSignal" (the exception in flight), "run" (cut off, still
\*         running), "crash" (the process ended by a failed assert)
\*   ok    a bool result;  tok  a TokenP result;  word  a Word result
\* and what is recorded of the run for the properties:
\*   trace the place (line text, position) of every word parseTokens read in
\*         this driver call, and whether its token was handed to execToken
\*   sig   the signal thrown by the token executed last, if any, with the
\*         parameter stack as it was when that token began
\*   fuel  the number of tokens this driver call may still execute

\* the exceptions of CForth.h
Signals == {"abortSignal", "quitSignal"}

NoSig == [kind |-> "none", tokens |-> <<>>]

\* State::error(msg): sets lastError_; arg is the word of a "<word> ?" message
Error(s, msg, arg) == [s EXCEPT !.ret = "err", !.lastError_ = [msg |-> msg, arg |-> arg]]

\* the names a word may be compared with or registered under
n_DUP == <<"D","U","P">>
n_DROP == <<"D","R","O","P">>
n_SWAP == <<"S","W","A","P">>
n_OVER == <<"O","V","E","R">>
n_PLUS == <<"+">>
n_MINUS == <<"-">>
n_TIMES == <<"*">>
n_LESS == <<"<">>
n_EQUAL == <<"=">>
n_GREATER == <<">">>
n_FETCH == <<"@">>
n_STORE == <<"!">>
n_PRINT == <<".">>
n_DO == <<"D","O">>
n_LOOP == <<"L","O","O","P">>
n_ILOOP == <<"+","L","O","O","P">>
n_I == <<"I">>
n_J == <<"J">>
n_IF == <<"I","F">>
n_ELSE == <<"E","L","S","E">>
n_THEN == <<"T","H","E","N">>
n_LOAD == <<"L","O","A","D">>
n_DEFINE == <<":">>
n_SEMI == <<";">>
n_VARIABLE == <<"V","A","R","I","A","B","L","E">>
n_CONSTANT == <<"C","O","N","S","T","A","N","T">>
n_FORGET == <<"F","O","R","G","E","T">>
n_ABORT == <<"A","B","O","R","T">>
n_QUIT == <<"Q","U","I","T">>
n_QDUP == <<"?","D","U","P">>
n_POP_RET == <<">","R">>
n_PUSH_RET == <<"R",">">>
n_COPY_RET == <<"e","@">>
n_DECIMAL == <<"D","E","C","I","M","A","L">>
n_BEGIN == <<"B","E","G","I","N">>
n_UNTIL == <<"U","N","T","I","L">>
n_WHILE == <<"W","H","I","L","E">>
n_REPEAT == <<"R","E","P","E","A","T">>
n_LEAVE == <<"L","E","A","V","E">>
n_CREATE == <<"C","R","E","A","T","E">>
n_COMMA == <<",">>
n_DOES == <<"D","O","E","S",">">>
n_ROT == <<"R","O","T">>
n_PLOT == <<"P","L","O","T">>
n_ALLOT == <<"A","L","L","O","T">>
n_MOVE == <<"M","O","V","E">>
n_FILL == <<"F","I","L","L">>
n_ADDSTORE == <<"+","!">>
n_PICK == <<"P","I","C","K">>
n_ROLL == <<"R","O","L","L">>
n_DEPTH == <<"D","E","P","T","H">>
n_DIV == <<"/">>
n_MAX == <<"M","A","X">>
n_MIN == <<"M","I","N">>
n_ULESS == <<"U","<">>
n_MOD == <<"M","O","D">>
n_DMOD == <<"/","M","O","D">>
n_BASE == <<"B","A","S","E">>

\* fillBuffer
RECURSIVE fillBufferFile(_), fillBufferLines(_)
fillBufferFile(s) ==
  IF LineIsValid(s.line_) THEN [s EXCEPT !.ok = TRUE]
  ELSE IF ~FileCanRead(s.file_) THEN [s EXCEPT !.ok = FALSE]
  ELSE fillBufferFile([s EXCEPT !.line_ = LineSkipSpace(MkLine(FileLineRead(s.file_))),
                                !.file_ = FileAfterRead(s.file_)])

fillBufferLines(s) ==
  IF LineIsValid(s.line_) THEN [s EXCEPT !.ok = TRUE]
  ELSE IF s.lines_ = <<>> THEN [s EXCEPT !.ok = FALSE]
  ELSE fillBufferLines([s EXCEPT !.line_ = LineSkipSpace(s.lines_[Len(s.lines_)]),
                                 !.lines_ = SubSeq(s.lines_, 1, Len(s.lines_) - 1)])

fillBuffer(s) ==
  LET filled(s1) == IF s1.file_.open THEN fillBufferFile(s1) ELSE fillBufferLines(s1)
  IN  filled(IF LineIsValid(s.line_) THEN [s EXCEPT !.line_ = LineSkipSpace(s.line_)] ELSE s)

\* readWord(Line &line, Word &word): the line afterwards
RECURSIVE ReadWordEnd(_)
ReadWordEnd(line) ==
  IF LineIsValid(line) /\ ~LineIsSpace(line)
  THEN ReadWordEnd([line EXCEPT !.pos = @ + 1])
  ELSE line

\* readWord(Word &word): s.ok is the result, s.word the word read
readWord(s) ==
  LET read(s1, e) ==
        [s1 EXCEPT !.ok = TRUE,
                   !.word = [valid |-> TRUE,
                             value |-> SubSeq(s1.line_.str, s1.line_.pos + 1, e.pos)],
                   !.line_ = LineSkipSpace(e)]
      filled(s1) ==
        IF ~s1.ok THEN [s1 EXCEPT !.word = [valid |-> FALSE, value |-> <<>>]]
        ELSE read(s1, ReadWordEnd([s1.line_ EXCEPT !.pos = @ + 1]))
  IN  filled(fillBuffer(s))

\* ------------------------------------------------------------- dictionary
\* a Variable object: name_, values_, ind_, constant_, execTokens_
\* (a boxed token is kept in the same heap as an object with one value)
NewVariable(name) ==
  [name |-> name, values |-> <<>>, ind |-> 0, constant |-> FALSE, execTokens |-> <<>>]

\* map[name].push_back(x) of variables_ / procedures_
MapPush(map, name, x) ==
  [n \in (DOMAIN map) \cup {name} |->
     IF n = name THEN (IF name \in DOMAIN map THEN Append(map[name], x) ELSE <<x>>)
     ELSE map[n]]

\* the find / empty test shared by the lookup and forget functions
MapHas(map, name) == name \in DOMAIN map /\ map[name] # <<>>

\* map[name].pop_back()
MapPop(map, name) == [map EXCEPT ![name] = SubSeq(@, 1, Len(@) - 1)]

\* defineVariable(name): s.tok is the new variable
defineVariable(s, name) ==
  [s EXCEPT !.nobj = s.nobj + 1,
            !.heap = ((s.nobj + 1) :> NewVariable(name)) @@ s.heap,
            !.variables_ = MapPush(s.variables_, name, s.nobj + 1),
            !.tok = VariableToken(s.nobj + 1)]

\* Variable::addValue
addValue(s, id, token) == [s EXCEPT !.heap[id].values = Append(@, token)]

\* defineVariable(name, token)
defineVariableValue(s, name, token) ==
  LET defined(s1) == addValue(s1, s1.tok.id, token) IN defined(defineVariable(s, name))

\* forgetVariable: s.ok is the result
forgetVariable(s, name) ==
  IF MapHas(s.variables_, name)
  THEN [s EXCEPT !.variables_ = MapPop(s.variables_, name), !.ok = TRUE]
  ELSE [s EXCEPT !.ok = FALSE]

\* lookupVariable: whether it finds one, and the variable found
lookupVariable(s, name) == MapHas(s.variables_, name)
LookedUpVariable(s, name) == s.variables_[name][Len(s.variables_[name])]

\* defineProcedure
defineProcedure(s, name, tokens) ==
  [s EXCEPT !.nobj = s.nobj + 1,
            !.procedures_ = MapPush(s.procedures_, name,
                                    ProcedureToken(name, tokens, s.nobj + 1))]

\* forgetProcedure: s.ok is the result
forgetProcedure(s, name) ==
  IF MapHas(s.procedures_, name)
  THEN [s EXCEPT !.procedures_ = MapPop(s.procedures_, name), !.ok = TRUE]
  ELSE [s EXCEPT !.ok = FALSE]

\* lookupProcedure: whether it finds one, and the procedure found
lookupProcedure(s, name) == MapHas(s.procedures_, name)
LookedUpProcedure(s, name) == s.procedures_[name][Len(s.procedures_[name])]

\* the token a TokenP points to: a boxed token's current value, or the token
Deref(s, token) == IF token.type = "box" THEN s.heap[token.id].values[1] ELSE token

\* Variable::indValue / VariableRef::indValue
indValue(s, var, ind) ==
  LET at(i, values) == IF i >= 0 /\ i < Len(values) THEN values[i + 1] ELSE NullToken
  IN  at(IF var.type = "ref" THEN var.val + ind ELSE ind, s.heap[var.id].values)

\* Variable::value / VariableRef::value
VarValue(s, var) ==
  indValue(s, var, IF var.type = "ref" THEN 0 ELSE s.heap[var.id].ind)

\* Token::isVarBase with VarBase::isConstant
IsConstantVar(s, token) == token.type = "var" /\ s.heap[token.id].constant

\* Token::isVarRef: a VarBase that is not constant
isVarRef(s, token) == token.type \in {"var", "ref"} /\ ~IsConstantVar(s, token)

\* getBase (Variable::getInteger included)
getBase(s) ==
  LET clamp(v) ==
        IF v.type # "num" THEN 0
        ELSE IF v.val < 2 THEN 2 ELSE IF v.val > 36 THEN 36 ELSE v.val
  IN  IF ~lookupVariable(s, n_BASE) THEN 10
      ELSE clamp(Deref(s, VarValue(s, VariableToken(LookedUpVariable(s, n_BASE)))))

\* ---------------------------------------------------------------- numbers
\* the index of the first character from i on that is no digit of the base
RECURSIVE SkipBaseChars(_, _, _)
SkipBaseChars(str, i, base) ==
  IF i <= Len(str) /\ isBaseChar(str[i], base) THEN SkipBaseChars(str, i + 1, base) ELSE i

\* toBaseInteger: *integer (the long is wide enough for the words read here)
RECURSIVE toBaseIntegerValue(_, _, _)
toBaseIntegerValue(str, base, acc) ==
  IF str = <<>> THEN acc
  ELSE toBaseIntegerValue(Tail(str), base, base * acc + BaseCharValue(Head(str)))

\* toBaseInteger: whether it succeeds
toBaseInteger(str, base) ==
  LET inRange(integer) == integer <= INT_MAX /\ integer >= INT_MIN IN
  /\ ~(base < 2 \/ base > 36)
  /\ \A i \in 1..Len(str) : isBaseChar(str[i], base)
  /\ inRange(toBaseIntegerValue(str, base, 0))

\* readNumberToken(std::string &word, NumberTokenP &token) under a base:
\* [ok |-> whether it succeeds, tok |-> the token]
readNumberToken(word, base) ==
  LET sign == IF word[1] = "-" THEN -1 ELSE 1
      i0 == IF word[1] \in {"+", "-"} THEN 2 ELSE 1
      made(dot, exp, i3, str) ==
        IF i3 <= Len(word) THEN [ok |-> FALSE, tok |-> NullToken]
        ELSE IF dot \/ exp THEN [ok |-> TRUE, tok |-> makeReal(sign, str)]
        ELSE IF ~toBaseInteger(str, base) THEN [ok |-> FALSE, tok |-> NullToken]
        ELSE [ok |-> TRUE, tok |-> makeInteger(sign * toBaseIntegerValue(str, base, 0))]
      exponent(dot, exp, i2) ==
        made(dot, exp, IF exp THEN SkipBaseChars(word, i2 + 1, base) ELSE i2,
             SubSeq(word, i0, (IF exp THEN SkipBaseChars(word, i2 + 1, base) ELSE i2) - 1))
      fraction(dot, i2) ==
        exponent(dot, /\ i2 <= Len(word) /\ word[i2] \in {"E", "e"}
                      /\ i2 + 1 <= Len(word) /\ isBaseChar(word[i2 + 1], base), i2)
      whole(i1) ==
        IF i1 = i0 THEN [ok |-> FALSE, tok |-> NullToken]
        ELSE IF i1 <= Len(word) /\ word[i1] = "."
        THEN fraction(TRUE, SkipBaseChars(word, i1 + 1, base))
        ELSE fraction(FALSE, i1)
  IN  whole(SkipBaseChars(word, i0, base))

\* os << int: the decimal digits of a natural number
RECURSIVE DecDigits(_)
DecDigits(n) ==
  IF n < 10 THEN <<Digits[n + 1]>> ELSE Append(DecDigits(n \div 10), Digits[(n % 10) + 1])

\* Number::print of an integer
IntString(i) == IF i < 0 THEN <<"-">> \o DecDigits(-i) ELSE DecDigits(i)

\* toBaseString(base, integer)
RECURSIVE toBaseDigits(_, _)
toBaseDigits(base, n) ==
  IF n >= base THEN Append(toBaseDigits(base, n \div base), base_chars[(n % base) + 1])
  ELSE <<base_chars[n + 1]>>

\* toBaseString with the fault of Number::print's digits: always decimal
toBaseStringDecimal(base, integer) == IntString(integer)

\* toBaseString: the '-' of a negative integer is added to the empty string
\* first and every digit is then put in front of it, so it ends the string
\* (integer = INT_MIN, whose negation overflows, is left to the callers)
toBaseString(base, integer) ==
  IF base < 2 \/ base > 36 THEN <<>>
  ELSE IF integer < 0 THEN toBaseDigits(base, -integer) \o <<"-">>
  ELSE toBaseDigits(base, integer)

\* ----------------------------------------------------------------- stacks
\* pushToken
pushToken(s, token) == [s EXCEPT !.tokens_ = Append(@, token)]

\* popToken(TokenP &token): s.tok is the token popped
popToken(s) ==
  IF s.tokens_ = <<>> THEN Error(s, "STACK EMPTY", <<>>)
  ELSE [s EXCEPT !.tok = s.tokens_[Len(s.tokens_)],
                 !.tokens_ = SubSeq(s.tokens_, 1, Len(s.tokens_) - 1)]

\* tokenToNumber: s.tok becomes the number's token
tokenToNumber(s, token) ==
  LET number(t1) ==
        IF t1.type # "num" THEN Error(s, "must be number", <<>>) ELSE [s EXCEPT !.tok = t1]
      constant(t0) == number(IF IsConstantVar(s, t0) THEN Deref(s, VarValue(s, t0)) ELSE t0)
  IN  constant(Deref(s, token))

\* popNumber: s.tok is the number popped
popNumber(s) ==
  LET popped(s1) == IF s1.ret # "ok" THEN s1 ELSE tokenToNumber(s1, s1.tok)
  IN  popped(popToken(s))

\* popBoolean: s.ok is the boolean popped
popBoolean(s) ==
  LET boolean(s1, t) ==
        IF t.type \in {"num", "bool"} THEN [s1 EXCEPT !.ok = (t.val # 0)]
        ELSE Error(s1, "must be integer or boolean", <<>>)
      popped(s1) == IF s1.ret # "ok" THEN s1 ELSE boolean(s1, Deref(s1, s1.tok))
  IN  popped(popToken(s))

\* ------------------------------------------------------------- built-ins
\* the names the standard built-ins are registered under (lookupBuiltin's
\* defBuiltin calls with the names of the BUILTIN_DEF lines)
StdBuiltins ==
  { n_DUP, n_DROP, n_SWAP, n_OVER, <<"R","O","T">>, <<"P","I","C","K">>,
    <<"R","O","L","L">>, <<"?","D","U","P">>, <<"D","E","P","T","H">>, <<">","R">>,
    <<"R",">">>, <<"e","@">>,
    n_LESS, n_EQUAL, n_GREATER, <<"U","<">>, <<"N","O","T">>,
    n_PLUS, n_MINUS, n_TIMES, <<"/">>, <<"M","O","D">>, <<"/","M","O","D">>,
    <<"1","+">>, <<"2","+">>, <<"*","/">>, <<"M","A","X">>, <<"M","I","N">>,
    <<"A","B","S">>, <<"N","E","G","A","T","E">>, <<"A","N","D">>, <<"O","R">>,
    <<"X","O","R">>,
    n_FETCH, n_STORE, <<"?">>, <<"+","!">>, <<"M","O","V","E">>, <<"F","I","L","L">>,
    n_DO, n_LOOP, n_ILOOP, n_I, <<"J">>, <<"L","E","A","V","E">>, n_IF, n_ELSE, n_THEN,
    <<"B","E","G","I","N">>, <<"U","N","T","I","L">>, <<"W","H","I","L","E">>,
    <<"R","E","P","E","A","T">>,
    <<"E","M","I","T">>, <<".","\"">>, <<"T","Y","P","E">>, <<"C","O","U","N","T">>,
    <<"-","T","R","A","I","L","I","N","G">>, <<"K","E","Y">>,
    <<"E","X","P","E","C","T">>, <<"Q","U","E","R","Y">>, <<"W","O","R","D">>,
    <<"D","E","C","I","M","A","L">>, n_PRINT, <<"P","S","T","A","C","K">>,
    n_LOAD,
    n_DEFINE, n_VARIABLE, n_CONSTANT, <<"C","R","E","A","T","E">>, <<",">>,
    <<"D","O","E","S",">">>, n_FORGET,
    <<"A","L","L","O","T">>,
    <<"(">>, <<"H","E","R","E">>, n_ABORT, n_QUIT, <<"D","E","B","U","G">> }

\* lookupBuiltin: the registry after its first-use registration
RegisteredBuiltins(s) == IF s.builtins_ = {} THEN StdBuiltins ELSE s.builtins_

\* lookupBuiltin: whether builtins_.find(toUpper(str)) finds one
lookupBuiltin(s, str) == toUpper(str) \in RegisteredBuiltins(s)

\* addBuiltin: builtins_[builtin->name()] = builtin
addBuiltin(s, name) == [s EXCEPT !.builtins_ = @ \cup {name}]

\* Builtin::hasModifier: the MOD_BUILTIN_DEF built-ins
hasModifier(name) ==
  name \in {n_DO, n_IF, <<"B","E","G","I","N">>, <<".","\"">>, n_LOAD,
            <<"D","O","E","S",">">>, <<"(">>}

\* Token::isNull: the comment built-in
isNull(token) == token.type = "builtin" /\ token.name = <<"(">>

\* addBlockToken with the fault of a procedure token that is dropped like a
\* null token instead of being expanded
addBlockTokenNoExpand(tokens, token) ==
  IF token.type = "proc" \/ isNull(token) THEN tokens ELSE Append(tokens, token)

\* addBlockToken
addBlockToken(tokens, token) ==
  IF token.type = "proc" THEN tokens \o token.body
  ELSE IF ~isNull(token) THEN Append(tokens, token)
  ELSE tokens

RECURSIVE parseWord(_, _), DoReadModifier(_, _), IfReadModifier(_, _, _),
          BeginReadModifier(_, _), DoesReadModifier(_, _)

\* DoBuiltin::readModifier: the end of one pass of its loop, after parseWord
DoAddBlockToken(s, b) ==
  IF s.ret # "ok" THEN s
  ELSE DoReadModifier(s, [b EXCEPT !.body = addBlockToken(@, s.tok)])

\* DoBuiltin::readModifier on the built-in b: s.tok is b with its modifier
DoReadModifier(s, b) ==
  LET word == readWord(s)
  IN  IF ~word.ok THEN Error(word, "Unterminated DO", <<>>)
      ELSE IF word.word.value = n_LOOP THEN [word EXCEPT !.tok = b]
      ELSE IF word.word.value = n_ILOOP THEN [word EXCEPT !.tok = [b EXCEPT !.flag = TRUE]]
      ELSE DoAddBlockToken(parseWord(word, word.word.value), b)

\* IfBuiltin::readModifier: the end of one pass of its loop, after parseWord
IfAddBlockToken(s, b, in_else) ==
  IF s.ret # "ok" THEN s
  ELSE IF ~in_else
  THEN IfReadModifier(s, [b EXCEPT !.body = addBlockToken(@, s.tok)], in_else)
  ELSE IfReadModifier(s, [b EXCEPT !.body2 = addBlockToken(@, s.tok)], in_else)

\* IfBuiltin::readModifier on the built-in b
IfReadModifier(s, b, in_else) ==
  LET word == readWord(s)
  IN  IF ~word.ok THEN Error(word, "Unterminated IF", <<>>)
      ELSE IF word.word.value = n_ELSE THEN IfReadModifier(word, b, TRUE)
      ELSE IF word.word.value = n_THEN THEN [word EXCEPT !.tok = b]
      ELSE IfAddBlockToken(parseWord(word, word.word.value), b, in_else)

\* BeginBuiltin::readModifier: the end of one pass of its loop, after parseWord
BeginAddBlockToken(s, b) ==
  IF s.ret # "ok" THEN s
  ELSE BeginReadModifier(s, [b EXCEPT !.body = addBlockToken(@, s.tok)])

\* BeginBuiltin::readModifier on the built-in b: body is tokens_.tokens, body2
\* tokens_.whileTokens, flag tokens_.is_until and flag2 tokens_.is_while
BeginReadModifier(s, b) ==
  LET word == readWord(s)
  IN  IF ~word.ok THEN Error(word, "Unterminated BEGIN", <<>>)
      ELSE IF word.word.value = n_UNTIL
      THEN [word EXCEPT !.tok = [b EXCEPT !.flag = TRUE, !.flag2 = FALSE]]
      ELSE IF word.word.value = n_REPEAT
      THEN (IF ~b.flag2 THEN Error(word, "Missing WHILE", <<>>) ELSE [word EXCEPT !.tok = b])
      ELSE IF word.word.value = n_WHILE
      THEN BeginReadModifier(word, [b EXCEPT !.flag = FALSE, !.flag2 = TRUE,
                                              !.body2 = b.body, !.body = <<>>])
      ELSE BeginAddBlockToken(parseWord(word, word.word.value), b)

\* DoesBuiltin::readModifier: the end of one pass of its loop, after parseWord
DoesAddBlockToken(s, b) ==
  IF s.ret # "ok" THEN s
  ELSE DoesReadModifier(s, [b EXCEPT !.body = addBlockToken(@, s.tok)])

\* DoesBuiltin::readModifier on the built-in b: the `;` that ends the body is
\* left in the line (line_.setPos(pos))
DoesReadModifier(s, b) ==
  LET read(s1, s2) ==
        IF ~s2.ok THEN Error(s2, "Missing word", <<>>)
        ELSE IF s2.word.value = n_SEMI THEN [s2 EXCEPT !.line_ = s1.line_, !.tok = b]
        ELSE DoesAddBlockToken(parseWord(s2, s2.word.value), b)
      filled(s1) == IF ~s1.ok THEN Error(s1, "Missing char", <<>>) ELSE read(s1, readWord(s1))
  IN  filled(fillBuffer(s))

\* LoadBuiltin::readModifier on the built-in b
LoadReadModifier(s, b) ==
  LET read(s2) ==
        IF ~s2.ok THEN Error(s2, "Missing word", <<>>)
        ELSE [s2 EXCEPT !.tok = [b EXCEPT !.text = s2.word.value]]
      filled(s1) == IF ~s1.ok THEN Error(s1, "Missing char", <<>>) ELSE read(readWord(s1))
  IN  filled(fillBuffer(s))

\* Builtin::readModifier of the duplicate b of a built-in with a modifier
readModifier(s, b) ==
  CASE b.name = n_DO -> DoReadModifier(s, b)
    [] b.name = n_IF -> IfReadModifier(s, b, FALSE)
    [] b.name = n_LOAD -> LoadReadModifier(s, b)
    [] b.name = n_BEGIN -> BeginReadModifier(s, b)
    [] b.name = n_DOES -> DoesReadModifier(s, b)
    [] OTHER -> [s EXCEPT !.tok = b]

\* parseWord: its last two branches, the number read and the error
parseWordNumber(s, str, n) ==
  IF n.ok THEN [s EXCEPT !.tok = n.tok] ELSE Error(s, "?", str)

\* parseWord with the fault of the built-ins looked up before the variables
\* and the procedures
parseWordBuiltinFirst(s, str) ==
  LET variable(var) ==
        [s EXCEPT !.tok = IF IsConstantVar(s, var) THEN VarValue(s, var) ELSE var]
      registered == [s EXCEPT !.builtins_ = RegisteredBuiltins(s)]
  IN  IF lookupBuiltin(s, str) /\ hasModifier(toUpper(str))
      THEN readModifier([registered EXCEPT !.nobj = @ + 1],
                        [BuiltinToken(toUpper(str)) EXCEPT !.id = s.nobj + 1])
      ELSE IF lookupBuiltin(s, str) THEN [registered EXCEPT !.tok = BuiltinToken(toUpper(str))]
      ELSE IF lookupVariable(s, str) THEN variable(VariableToken(LookedUpVariable(s, str)))
      ELSE IF lookupProcedure(s, str) THEN [s EXCEPT !.tok = LookedUpProcedure(s, str)]
      ELSE parseWordNumber(registered, str, readNumberToken(str, getBase(s)))

\* parseWord: s.tok is the token
parseWord(s, str) ==
  LET variable(var) ==
        [s EXCEPT !.tok = IF IsConstantVar(s, var) THEN VarValue(s, var) ELSE var]
      registered == [s EXCEPT !.builtins_ = RegisteredBuiltins(s)]
  IN  IF lookupVariable(s, str) THEN variable(VariableToken(LookedUpVariable(s, str)))
      ELSE IF lookupProcedure(s, str) THEN [s EXCEPT !.tok = LookedUpProcedure(s, str)]
      ELSE IF lookupBuiltin(s, str) /\ hasModifier(toUpper(str))
      THEN readModifier([registered EXCEPT !.nobj = @ + 1],
                        [BuiltinToken(toUpper(str)) EXCEPT !.id = s.nobj + 1])
      ELSE IF lookupBuiltin(s, str) THEN [registered EXCEPT !.tok = BuiltinToken(toUpper(str))]
      ELSE parseWordNumber(registered, str, readNumberToken(str, getBase(s)))

\* --------------------------------------------------------------- executor
\* Token::cmp of the token a with the token b: [ok, cmp]
TokenCmp(s, a0, b0) ==
  LET sgn(x, y) == IF x > y THEN 1 ELSE IF x < y THEN -1 ELSE 0
      cmp(a, b) ==
        IF a.type = "num" /\ b.type = "num" THEN [ok |-> TRUE, cmp |-> sgn(a.val, b.val)]
        ELSE IF a.type \in {"var", "ref"} /\ b.type \in {"var", "ref"}
        THEN [ok |-> TRUE,
              cmp |-> IF a.id = b.id THEN sgn(a.val, b.val) ELSE sgn(a.id, b.id)]
        ELSE [ok |-> FALSE, cmp |-> 0]
  IN  cmp(Deref(s, a0), Deref(s, b0))

\* Token::inc on the boxed token: NumberToken::inc / VarBase::inc
TokenInc(s, box, n) ==
  [s EXCEPT !.heap[box.id].values[1].val = AddInt32(@, n.val)]

\* Number::print / BooleanToken::print / NumberToken::print / Variable::print
TokenString(s, token0) ==
  LET string(token, base) ==
        CASE token.type = "bool" \/ (token.type = "num" /\ token.nt = "bool") ->
               IF token.val # 0 THEN <<"T","R","U","E">> ELSE <<"F","A","L","S","E">>
          [] token.type = "num" /\ token.nt = "int" ->
               IF base # 10 THEN toBaseString(base, token.val) ELSE IntString(token.val)
          [] token.type = "num" /\ token.nt = "real" -> token.text
          [] token.type = "var" -> <<"$">> \o s.heap[token.id].name
          [] token.type = "ref" -> <<"$">> \o s.heap[token.id].name \o <<"[">>
                                   \o IntString(token.val) \o <<"]">>
          [] OTHER -> token.name
  IN  string(Deref(s, token0), getBase(s))

\* the two-number built-ins: popNumbers(n1, n2), then the result pushed
BinaryOp(s, name) ==
  LET op(s2, n1, n2) ==
        CASE name = n_PLUS -> pushToken(s2, makeInteger(AddInt32(n1, n2)))
          [] name = n_MINUS -> pushToken(s2, makeInteger(SubInt32(n1, n2)))
          [] name = n_TIMES -> pushToken(s2, makeInteger(MulInt32(n1, n2)))
          [] name = n_DIV ->
               IF n2 = 0 \/ (n1 = INT_MIN /\ n2 = -1) THEN [s2 EXCEPT !.ret = "crash"]
               ELSE pushToken(s2, makeInteger(DivInt32(n1, n2)))
          [] name = n_MAX -> pushToken(s2, makeInteger(IF n1 < n2 THEN n2 ELSE n1))
          [] name = n_MIN -> pushToken(s2, makeInteger(IF n2 < n1 THEN n2 ELSE n1))
          [] name = n_ULESS ->
               pushToken(s2, BooleanToken(IF (n1 < 0) = (n2 < 0) THEN n1 < n2 ELSE n2 < 0))
          [] name = n_LESS -> pushToken(s2, BooleanToken(SubInt32(n1, n2) < 0))
          [] name = n_EQUAL -> pushToken(s2, BooleanToken(SubInt32(n1, n2) = 0))
          [] name = n_GREATER -> pushToken(s2, BooleanToken(SubInt32(n1, n2) > 0))
      second(s1, s2) == IF s2.ret # "ok" THEN s2 ELSE op(s2, s2.tok.val, s1.tok.val)
      first(s1) == IF s1.ret # "ok" THEN s1 ELSE second(s1, popNumber(s1))
  IN  first(popNumber(s))

\* PlusBuiltin::exec / MinusBuiltin::exec
PlusMinus(s, name) ==
  LET nt == Len(s.tokens_)
      sign == IF name = n_MINUS THEN -1 ELSE 1
      index(s2, var, n) ==
        pushToken(s2, VariableRef(var.id,
          sign * n.val + (IF var.type = "ref" THEN var.val ELSE 0) + s.heap[var.id].ind))
      second(refFirst, s1, s2) ==
        IF s2.ret # "ok" THEN s2
        ELSE index(s2, Deref(s, IF refFirst THEN s2.tok ELSE s1.tok),
                   IF refFirst THEN s1.tok ELSE s2.tok)
      first(refFirst, s1) ==
        IF s1.ret # "ok" THEN s1
        ELSE second(refFirst, s1, IF refFirst THEN popToken(s1) ELSE popNumber(s1))
      refs(refFirst) ==
        IF ~refFirst /\ ~isVarRef(s, Deref(s, s.tokens_[nt])) THEN BinaryOp(s, name)
        ELSE first(refFirst, IF refFirst THEN popNumber(s) ELSE popToken(s))
  IN  IF nt < 2 THEN Error(s, "STACK UNDERFLOW", <<>>)
      ELSE refs(isVarRef(s, Deref(s, s.tokens_[nt - 1])))

\* FetchBuiltin::exec
FetchExec(s) ==
  LET fetch(s1, token) ==
        IF ~isVarRef(s, token) THEN Error(s1, "Not a variable", <<>>)
        ELSE IF VarValue(s, token).type = "null" THEN Error(s1, "invalid variable", <<>>)
        ELSE pushToken(s1, VarValue(s, token))
  IN  IF s.tokens_ = <<>> THEN Error(s, "STACK UNDERFLOW", <<>>)
      ELSE fetch([s EXCEPT !.tokens_ = SubSeq(@, 1, Len(@) - 1)],
                 Deref(s, s.tokens_[Len(s.tokens_)]))

\* StoreBuiltin::exec
StoreExec(s) ==
  LET nt == Len(s.tokens_)
      at(s1, token1, token2, ind) ==
        IF ind < 0 \/ ind >= Len(s.heap[token1.id].values)
        THEN Error(s1, "invalid variable", <<>>)
        ELSE [s1 EXCEPT !.heap[token1.id].values[ind + 1] = token2]
      store(s1, token1, token2) ==
        IF ~isVarRef(s, token1) THEN Error(s1, "Not a variable", <<>>)
        ELSE at(s1, token1, token2,
                IF token1.type = "ref" THEN token1.val ELSE s.heap[token1.id].ind)
  IN  IF nt < 2 THEN Error(s, "STACK UNDERFLOW", <<>>)
      ELSE store([s EXCEPT !.tokens_ = SubSeq(@, 1, nt - 2)],
                 Deref(s, s.tokens_[nt]), s.tokens_[nt - 1])

\* PrintBuiltin::exec
PrintExec(s) ==
  LET print(s1, token) == [s1 EXCEPT !.out = @ \o TokenString(s1, token) \o <<SP>>]
      popped(s1) ==
        IF s1.ret # "ok" THEN [s1 EXCEPT !.out = @ \o <<"0", NL>>]
        ELSE print(s1, IF IsConstantVar(s1, s1.tok) THEN VarValue(s1, s1.tok) ELSE s1.tok)
  IN  popped(popToken(s))

\* ForgetExec with the fault of the procedures tried before the variables
ForgetProcedureFirst(s) ==
  LET variable(s2) == IF s2.ok THEN Error(s2, "Unknown variable", <<>>) ELSE s2
      procedure(s2) == IF s2.ok THEN Error(s2, "Unknown procedure", <<>>) ELSE s2
      read(s1) ==
        IF ~s1.ok THEN Error(s1, "Missing word", <<>>)
        ELSE IF lookupProcedure(s1, s1.word.value)
        THEN procedure(forgetProcedure(s1, s1.word.value))
        ELSE IF lookupVariable(s1, s1.word.value)
        THEN variable(forgetVariable(s1, s1.word.value))
        ELSE Error(s1, "Unknown word", <<>>)
  IN  read(readWord(s))

\* ForgetBuiltin::exec
ForgetExec(s) ==
  LET variable(s2) == IF s2.ok THEN Error(s2, "Unknown variable", <<>>) ELSE s2
      procedure(s2) == IF s2.ok THEN Error(s2, "Unknown procedure", <<>>) ELSE s2
      read(s1) ==
        IF ~s1.ok THEN Error(s1, "Missing word", <<>>)
        ELSE IF lookupVariable(s1, s1.word.value)
        THEN variable(forgetVariable(s1, s1.word.value))
        ELSE IF lookupProcedure(s1, s1.word.value)
        THEN procedure(forgetProcedure(s1, s1.word.value))
        ELSE Error(s1, "Unknown word", <<>>)
  IN  read(readWord(s))

\* VariableBuiltin::exec
VariableExec(s) ==
  LET defined(s2) == [s2 EXCEPT !.currentVar_ = s2.tok.id]
      read(s1) ==
        IF ~s1.ok THEN Error(s1, "Missing word", <<>>)
        ELSE defined(defineVariableValue(s1, s1.word.value, makeInteger(0)))
  IN  read(readWord(s))

\* ConstantBuiltin::exec
ConstantExec(s) ==
  LET defined(s3) == [s3 EXCEPT !.heap[s3.tok.id].constant = TRUE]
      read(s1, s2) ==
        IF ~s2.ok THEN Error(s2, "Missing word", <<>>)
        ELSE defined(defineVariableValue(s2, s2.word.value, s1.tok))
      popped(s1) == IF s1.ret # "ok" THEN s1 ELSE read(s1, readWord(s1))
  IN  popped(popToken(s))

\* AbortBuiltin::exec
AbortExec(s) ==
  [s EXCEPT !.retTokens_ = <<>>, !.execTokens_ = <<>>, !.tokens_ = <<>>,
            !.ret = "abortSignal", !.sig = [kind |-> "abortSignal", tokens |-> s.tokens_]]

\* QuitExec with the fault of AbortExec's tokens_.clear()
QuitClearsStack(s) ==
  [s EXCEPT !.retTokens_ = <<>>, !.execTokens_ = <<>>, !.tokens_ = <<>>,
            !.ret = "quitSignal", !.sig = [kind |-> "quitSignal", tokens |-> s.tokens_]]

\* QuitBuiltin::exec
QuitExec(s) ==
  [s EXCEPT !.retTokens_ = <<>>, !.execTokens_ = <<>>,
            !.ret = "quitSignal", !.sig = [kind |-> "quitSignal", tokens |-> s.tokens_]]

\* IBuiltin::exec
IExec(s) ==
  IF Len(s.retTokens_) < 2 THEN Error(s, "Not in DO", <<>>)
  ELSE pushToken(s, s.retTokens_[Len(s.retTokens_) - 1])

\* JExec with the fault of IExec's index: the innermost loop's start token
JExecInnermost(s) ==
  IF Len(s.retTokens_) < 4 THEN Error(s, "Not in double nested DO", <<>>)
  ELSE pushToken(s, s.retTokens_[Len(s.retTokens_) - 1])

\* JBuiltin::exec
JExec(s) ==
  IF Len(s.retTokens_) < 4 THEN Error(s, "Not in double nested DO", <<>>)
  ELSE pushToken(s, s.retTokens_[Len(s.retTokens_) - 3])

\* QDupBuiltin::exec: popNumber(n), then pushNumber(n) if n.integer()
QDupExec(s) ==
  LET popped == popNumber(s)
  IN  IF popped.ret # "ok" THEN popped
      ELSE IF popped.tok.val # 0 THEN pushToken(popped, popped.tok)
      ELSE popped

\* PopRetBuiltin::exec (the word >R)
PopRetExec(s) ==
  LET popped == popToken(s)
  IN  IF popped.ret # "ok" THEN popped
      ELSE [popped EXCEPT !.retTokens_ = Append(@, popped.tok)]

\* PushRetBuiltin::exec (the word R>)
PushRetExec(s) ==
  IF s.retTokens_ = <<>> THEN Error(s, "STACK EMPTY", <<>>)
  ELSE pushToken([s EXCEPT !.retTokens_ = SubSeq(@, 1, Len(@) - 1)],
                 s.retTokens_[Len(s.retTokens_)])

\* CopyRetBuiltin::exec (registered under the name e@)
CopyRetExec(s) ==
  IF s.retTokens_ = <<>> THEN Error(s, "STACK EMPTY", <<>>)
  ELSE pushToken(s, s.retTokens_[Len(s.retTokens_)])

\* DecimalBuiltin::exec
DecimalExec(s) ==
  IF lookupVariable(s, n_BASE) THEN s
  ELSE defineVariableValue(s, n_BASE, makeInteger(10))

\* Number::mod on two integers, the divisor not 0: Mod::exec
NumberMod(a, b) == SubInt32(a, MulInt32(b, DivInt32(a, b)))

\* ModBuiltin::exec (DModBuiltin::exec when divide is set): popNumbers(n1, n2),
\* then Number::mod, whose assert(b != 0) ends the process, and Number::divide
ModExec(s, divide) ==
  LET mod(s2, n1, n2) ==
        IF n2 = 0 \/ (n1 = INT_MIN /\ n2 = -1) THEN [s2 EXCEPT !.ret = "crash"]
        ELSE IF divide
        THEN pushToken(pushToken(s2, makeInteger(NumberMod(n1, n2))),
                       makeInteger(DivInt32(n1, n2)))
        ELSE pushToken(s2, makeInteger(NumberMod(n1, n2)))
      second(s1, s2) == IF s2.ret # "ok" THEN s2 ELSE mod(s2, s2.tok.val, s1.tok.val)
      first(s1) == IF s1.ret # "ok" THEN s1 ELSE second(s1, popNumber(s1))
  IN  first(popNumber(s))

\* RotBuiltin::exec
RotExec(s) ==
  LET nt == Len(s.tokens_)
  IN  IF nt < 3 THEN Error(s, "STACK UNDERFLOW", <<>>)
      ELSE [s EXCEPT !.tokens_ = SubSeq(@, 1, nt - 3) \o <<@[nt - 1], @[nt], @[nt - 2]>>]

\* peekToken(int n, TokenP &token): s.tok is the token
peekToken(s, n) ==
  IF n <= 0 THEN Error(s, "Invalid index", <<>>)
  ELSE IF n > Len(s.tokens_) THEN Error(s, "Stack too small", <<>>)
  ELSE [s EXCEPT !.tok = s.tokens_[Len(s.tokens_) - n + 1]]

\* PickBuiltin::exec
PickExec(s) ==
  LET peeked(s2) == IF s2.ret # "ok" THEN s2 ELSE pushToken(s2, s2.tok)
      popped(s1) ==
        IF s1.ret # "ok" THEN s1
        ELSE IF s1.tok.nt # "int" THEN Error(s1, "Must be integer", <<>>)
        ELSE peeked(peekToken(s1, s1.tok.val))
  IN  popped(popNumber(s))

\* RollBuiltin::exec: the last pass of its loop reads tokens_[nt], the slot
\* past the end, and with i <= 0 the token itself is taken from there
RollExec(s) ==
  LET roll(s1, i, nt) ==
        IF i > nt THEN Error(s1, "STACK UNDERFLOW", <<>>)
        ELSE IF s1.ub = "crash" \/ nt = 0 THEN [s1 EXCEPT !.ret = "crash"]
        ELSE IF i <= 0
        THEN [s1 EXCEPT !.tokens_ = SubSeq(@, 1, nt - 1) \o <<GarbageToken>>]
        ELSE [s1 EXCEPT !.tokens_ = SubSeq(@, 1, nt - i) \o SubSeq(@, nt - i + 2, nt)
                                      \o <<@[nt - i + 1]>>]
      popped(s1) ==
        IF s1.ret # "ok" THEN s1
        ELSE IF s1.tok.nt # "int" THEN Error(s1, "Must be integer", <<>>)
        ELSE roll(s1, s1.tok.val, Len(s1.tokens_))
  IN  popped(popNumber(s))

\* DepthExec with the fault of a DEPTH that pushes nothing
DepthPushesNothing(s) == s

\* DepthBuiltin::exec
DepthExec(s) == pushToken(s, makeInteger(Len(s.tokens_)))

\* popVarRef: s.tok is the variable or reference popped
popVarRef(s) ==
  LET popped(s1) ==
        IF s1.ret # "ok" THEN s1
        ELSE IF ~isVarRef(s1, s1.tok) THEN Error(s1, "must be ref variable", <<>>)
        ELSE s1
  IN  popped(popToken(s))

\* popVariable: s.tok is the variable popped
popVariable(s) ==
  LET popped(s1) ==
        IF s1.ret # "ok" THEN s1
        ELSE IF s1.tok.type # "var" THEN Error(s1, "must be variable", <<>>)
        ELSE s1
  IN  popped(popToken(s))

\* Variable::setIndValue / VariableRef::setIndValue (the result is ignored by
\* MOVE and FILL)
setIndValue(s, var, ind, value) ==
  LET at(i) ==
        IF i < 0 \/ i >= Len(s.heap[var.id].values) THEN s
        ELSE [s EXCEPT !.heap[var.id].values[i + 1] = value]
  IN  at(IF var.type = "ref" THEN var.val + ind ELSE ind)

\* the loop of MoveBuiltin::exec from i on
RECURSIVE MoveLoop(_, _, _, _, _)
MoveLoop(s, var1, var2, i, n) ==
  IF i >= n THEN s
  ELSE MoveLoop(setIndValue(s, var2, i, indValue(s, var1, i)), var1, var2, i + 1, n)

\* MoveBuiltin::exec
MoveExec(s) ==
  LET from(s1, n, var2, s3) ==
        IF s3.ret # "ok" THEN s3 ELSE MoveLoop(s3, s3.tok, var2, 0, n)
      to(s1, n, s2) ==
        IF s2.ret # "ok" THEN s2 ELSE from(s1, n, s2.tok, popVarRef(s2))
      count(s1) == IF s1.ret # "ok" THEN s1 ELSE to(s1, s1.tok.val, popVarRef(s1))
  IN  count(popNumber(s))

\* the loop of FillBuiltin::exec from i on
RECURSIVE FillLoop(_, _, _, _, _)
FillLoop(s, var, token, i, n) ==
  IF i >= n THEN s ELSE FillLoop(setIndValue(s, var, i, token), var, token, i + 1, n)

\* FillBuiltin::exec
FillExec(s) ==
  LET var(token, n, s3) ==
        IF s3.ret # "ok" THEN s3 ELSE FillLoop(s3, s3.tok, token, 0, n)
      count(token, s2) ==
        IF s2.ret # "ok" THEN s2 ELSE var(token, s2.tok.val, popVarRef(s2))
      value(s1) == IF s1.ret # "ok" THEN s1 ELSE count(s1.tok, popNumber(s1))
  IN  value(popToken(s))

\* Variable::allot
RECURSIVE allot(_, _, _)
allot(s, id, n) == IF n <= 0 THEN s ELSE allot(addValue(s, id, makeInteger(0)), id, n - 1)

\* AllotBuiltin::exec
AllotExec(s) ==
  LET popped(s1) ==
        IF s1.ret # "ok" THEN s1
        ELSE IF s1.currentVar_ = 0 THEN Error(s1, "No current variable", <<>>)
        ELSE allot(s1, s1.currentVar_, s1.tok.val)
  IN  popped(popNumber(s))

\* AddStoreBuiltin::exec
AddStoreExec(s) ==
  LET add(s2, var, token) ==
        IF token.type = "null" THEN Error(s2, "invalid variable", <<>>)
        ELSE IF Deref(s2, token).type # "num" THEN Error(s2, "var must be number", <<>>)
        ELSE setIndValue(s2, var, s2.heap[var.id].ind,
                         makeInteger(AddInt32(Deref(s2, token).val, s2.tok.val)))
      number(var, s2) == IF s2.ret # "ok" THEN s2 ELSE add(s2, var, VarValue(s2, var))
      popped(s1) == IF s1.ret # "ok" THEN s1 ELSE number(s1.tok, popNumber(s1))
  IN  popped(popVariable(s))

\* PlotBuiltin::exec of the Qt front end: popNumbers(n1, n2, n3), then the
\* pixel of the image, which is no part of the interpreter's state
PlotExec(s) ==
  LET first(s2) == IF s2.ret # "ok" THEN s2 ELSE popNumber(s2)
      second(s1) == IF s1.ret # "ok" THEN s1 ELSE first(popNumber(s1))
  IN  second(popNumber(s))
RECURSIVE execToken(_, _), ExecTokens(_, _, _), DoLoop(_, _, _, _, _), DoBody(_, _, _),
          parseTokens(_), parseFile(_, _), DefineLoop(_, _, _), BuiltinExec(_, _),
          BeginBody(_, _, _, _), BeginUntil(_, _), BeginWhile(_, _)

\* ExecTokens with the fault of a loop that goes on with the next token after
\* a token has failed
ExecTokensLenient(s, tokens, i) ==
  IF s.ret \notin {"ok", "err"} \/ i > Len(tokens) THEN s
  ELSE ExecTokens(execToken([s EXCEPT !.ret = "ok"], tokens[i]), tokens, i + 1)

\* the for loops over a token array (Procedure::exec, IfBuiltin::exec,
\* Variable::execTokens) from the i-th token on; a failing token ends the loop
ExecTokens(s, tokens, i) ==
  IF s.ret # "ok" \/ i > Len(tokens) THEN s
  ELSE ExecTokens(execToken(s, tokens[i]), tokens, i + 1)

\* DoBuiltin::exec1: the body's for loop, from the i-th token on
DoBody(s, b, i) ==
  IF s.ret # "ok" \/ b.id \in s.leave \/ i > Len(b.body) THEN s
  ELSE DoBody(execToken(s, b.body[i]), b, i + 1)

\* DoInc with the fault of an increment (popped for +LOOP) that is applied
\* although LEAVE has set the loop's flag
DoIncAfterLeave(s, b, startToken) ==
  LET inc(s2) == IF s2.ret # "ok" THEN s2 ELSE TokenInc(s2, startToken, s2.tok)
  IN  IF s.ret # "ok" THEN s
      ELSE inc(IF b.flag THEN popNumber(s) ELSE [s EXCEPT !.tok = makeInteger(1)])

\* DoBuiltin::exec1: the end of one pass of the for (;;) loop, after the body
DoInc(s, b, startToken) ==
  LET inc(s2) == IF s2.ret # "ok" THEN s2 ELSE TokenInc(s2, startToken, s2.tok)
  IN  IF s.ret # "ok" \/ b.id \in s.leave THEN s
      ELSE inc(IF b.flag THEN popNumber(s) ELSE [s EXCEPT !.tok = makeInteger(1)])

\* DoLoop with the fault of a loop test that is off by one (< and > for <= and >=)
DoLoopInclusive(s, b, startToken, endToken, up) ==
  LET c == TokenCmp(s, endToken, startToken)
  IN  IF s.ret # "ok" \/ b.id \in s.leave THEN s
      ELSE IF ~c.ok THEN Error(s, "cmp not supported", <<>>)
      ELSE IF (IF up THEN c.cmp < 0 ELSE c.cmp > 0) THEN s
      ELSE DoLoop(DoInc(DoBody(s, b, 1), b, startToken), b, startToken, endToken, up)

\* DoBuiltin::exec1: the for (;;) loop
DoLoop(s, b, startToken, endToken, up) ==
  LET c == TokenCmp(s, endToken, startToken)
  IN  IF s.ret # "ok" \/ b.id \in s.leave THEN s
      ELSE IF ~c.ok THEN Error(s, "cmp not supported", <<>>)
      ELSE IF (IF up THEN c.cmp <= 0 ELSE c.cmp >= 0) THEN s
      ELSE DoLoop(DoInc(DoBody(s, b, 1), b, startToken), b, startToken, endToken, up)

\* DoPush with the fault of popTokens(startToken, endToken): the limit taken
\* from the top of the stack and the start index from beneath it
DoPushLimitFirst(s, b) ==
  LET pushed(s2, startToken, endToken) ==
        [s2 EXCEPT !.nobj = @ + 1,
                   !.heap = ((s2.nobj + 1) :> [NewVariable(<<>>) EXCEPT
                               !.values = <<startToken>>]) @@ s2.heap,
                   !.retTokens_ = @ \o <<BoxToken(s2.nobj + 1), endToken>>]
      second(s1, s2) ==
        IF s2.ret # "ok" THEN s2
        ELSE IF Deref(s2, s2.tok).type \notin {"num", "ref"} THEN [s2 EXCEPT !.ret = "crash"]
        ELSE pushed(s2, Deref(s2, s2.tok), s1.tok)
      first(s1) == IF s1.ret # "ok" THEN s1 ELSE second(s1, popToken(s1))
  IN  first(popToken(s))

\* DoBuiltin::exec: popTokens(endToken, startToken), startToken->dup() and the
\* two push_backs on retTokens_
DoPush(s, b) ==
  LET pushed(s2, startToken, endToken) ==
        [s2 EXCEPT !.nobj = @ + 1,
                   !.heap = ((s2.nobj + 1) :> [NewVariable(<<>>) EXCEPT
                               !.values = <<startToken>>]) @@ s2.heap,
                   !.retTokens_ = @ \o <<BoxToken(s2.nobj + 1), endToken>>]
      second(s1, s2) ==
        IF s2.ret # "ok" THEN s2
        ELSE IF Deref(s1, s1.tok).type \notin {"num", "ref"} THEN [s2 EXCEPT !.ret = "crash"]
        ELSE pushed(s2, Deref(s1, s1.tok), s2.tok)
      first(s1) == IF s1.ret # "ok" THEN s1 ELSE second(s1, popToken(s1))
  IN  first(popToken(s))

\* DoBuiltin::exec1 on the two tokens on top of retTokens_
DoExec1(s, b) ==
  LET startToken == s.retTokens_[Len(s.retTokens_) - 1]
      endToken == s.retTokens_[Len(s.retTokens_)]
      c == TokenCmp(s, endToken, startToken)
  IN  IF s.ret # "ok" THEN s
      ELSE IF ~c.ok THEN Error(s, "cmp not supported", <<>>)
      ELSE DoLoop([s EXCEPT !.leave = @ \ {b.id}], b, startToken, endToken, c.cmp > 0)

\* DoPop with the fault of one pop_back only
DoPopOne(s) ==
  IF s.ret # "ok" THEN s ELSE [s EXCEPT !.retTokens_ = SubSeq(@, 1, Len(@) - 1)]

\* DoBuiltin::exec: the two pop_backs on retTokens_
DoPop(s) ==
  IF s.ret # "ok" THEN s ELSE [s EXCEPT !.retTokens_ = SubSeq(@, 1, Len(@) - 2)]

\* DoBuiltin::exec
DoExec(s, b) == DoPop(DoExec1(DoPush(s, b), b))

\* DefineBuiltin::exec: the end of one pass of the for (;;) loop, after parseWord
DefineAddBlockToken(s, name, tokens) ==
  IF s.ret # "ok" THEN s ELSE DefineLoop(s, name, addBlockToken(tokens, s.tok))

\* DefineBuiltin::exec: the for (;;) loop
DefineLoop(s, name, tokens) ==
  LET word == readWord(s)
  IN  IF ~word.ok THEN Error(word, "Missing word", <<>>)
      ELSE IF word.word.value = n_SEMI THEN defineProcedure(word, name, tokens)
      ELSE DefineAddBlockToken(parseWord(word, word.word.value), name, tokens)

\* DefineExec with the fault of a name entered in the dictionary (with an
\* empty body) before its body is compiled
DefineExecNameFirst(s) ==
  LET name == readWord(s)
  IN  IF ~name.ok THEN Error(name, "Missing word", <<>>)
      ELSE DefineLoop(defineProcedure(name, name.word.value, <<>>), name.word.value, <<>>)

\* DefineBuiltin::exec
DefineExec(s) ==
  LET name == readWord(s)
  IN  IF ~name.ok THEN Error(name, "Missing word", <<>>)
      ELSE DefineLoop(name, name.word.value, <<>>)

\* IfBuiltin::exec
IfExec(s, b) ==
  LET popped == popBoolean(s)
  IN  IF popped.ret # "ok" THEN popped
      ELSE ExecTokens(popped, IF popped.ok THEN b.body ELSE b.body2, 1)

\* LoadBuiltin::exec
LoadExec(s, b) ==
  LET parsed(s1) == IF s1.ret \in {"ok", "err"} THEN [s1 EXCEPT !.ret = "ok"] ELSE s1
  IN  parsed(parseFile(s, b.text))

\* BeginBuiltin::exec: one of its for loops over a token array, from the i-th
\* token on
BeginBody(s, b, tokens, i) ==
  IF s.ret # "ok" \/ b.id \in s.leave \/ i > Len(tokens) THEN s
  ELSE BeginBody(execToken(s, tokens[i]), b, tokens, i + 1)

\* BeginBuiltin::exec, the UNTIL form: the end of one pass, after the body
BeginUntilTest(s, b) ==
  LET popped == popBoolean(s)
  IN  IF s.ret # "ok" \/ b.id \in s.leave THEN s
      ELSE IF popped.ret # "ok" \/ popped.ok THEN popped
      ELSE BeginUntil(popped, b)

\* BeginBuiltin::exec, the UNTIL form: the for (;;) loop
BeginUntil(s, b) == BeginUntilTest(BeginBody(s, b, b.body, 1), b)

\* BeginBuiltin::exec, the WHILE form: the end of one pass, after tokens_.tokens
BeginRepeat(s, b) ==
  IF s.ret # "ok" \/ b.id \in s.leave THEN s ELSE BeginWhile(s, b)

\* BeginWhileTest with the fault of a loop that goes on while the flag is
\* true and stops when it is false
BeginWhileTestStopsOnFalse(s, b) ==
  LET popped == popBoolean(s)
  IN  IF s.ret # "ok" \/ b.id \in s.leave THEN s
      ELSE IF popped.ret # "ok" \/ ~popped.ok THEN popped
      ELSE BeginRepeat(BeginBody(popped, b, b.body, 1), b)

\* BeginBuiltin::exec, the WHILE form: the middle of one pass, after
\* tokens_.whileTokens
BeginWhileTest(s, b) ==
  LET popped == popBoolean(s)
  IN  IF s.ret # "ok" \/ b.id \in s.leave THEN s
      ELSE IF popped.ret # "ok" \/ popped.ok THEN popped
      ELSE BeginRepeat(BeginBody(popped, b, b.body, 1), b)

\* BeginBuiltin::exec, the WHILE form: the for (;;) loop
BeginWhile(s, b) == BeginWhileTest(BeginBody(s, b, b.body2, 1), b)

\* BeginBuiltin::exec
BeginExec(s, b) ==
  IF b.flag THEN BeginUntil([s EXCEPT !.leave = @ \ {b.id}], b)
  ELSE BeginWhile([s EXCEPT !.leave = @ \ {b.id}], b)

\* LeaveExec with the fault of a walk from the bottom of the block-execution
\* stack: the flag of the outermost DO or BEGIN is set
LeaveExecOutermost(s) ==
  LET loops == {n \in 1..Len(s.execTokens_) :
                  s.execTokens_[n].type = "builtin" /\ s.execTokens_[n].name \in {n_DO, n_BEGIN}}
  IN  IF loops = {} THEN Error(s, "Leave not inside do", <<>>)
      ELSE [s EXCEPT !.leave = @ \cup {s.execTokens_[CHOOSE n \in loops : \A m \in loops : n <= m].id}]

\* LeaveBuiltin::exec: the flag of the topmost DO or BEGIN of execTokens_
LeaveExec(s) ==
  LET loops == {n \in 1..Len(s.execTokens_) :
                  s.execTokens_[n].type = "builtin" /\ s.execTokens_[n].name \in {n_DO, n_BEGIN}}
  IN  IF loops = {} THEN Error(s, "Leave not inside do", <<>>)
      ELSE [s EXCEPT !.leave = @ \cup {s.execTokens_[CHOOSE n \in loops : \A m \in loops : n >= m].id}]

\* CreateBuiltin::exec
CreateExec(s) ==
  LET defined(s2) == [s2 EXCEPT !.currentVar_ = s2.tok.id]
      read(s1) ==
        IF ~s1.ok THEN Error(s1, "Missing word", <<>>)
        ELSE defined(defineVariable(s1, s1.word.value))
  IN  read(readWord(s))

\* CommaBuiltin::exec
CommaExec(s) ==
  LET popped == [s EXCEPT !.tokens_ = SubSeq(@, 1, Len(@) - 1)]
  IN  IF s.tokens_ = <<>> THEN Error(s, "STACK EMPTY", <<>>)
      ELSE IF s.currentVar_ = 0 THEN Error(popped, "No current variable", <<>>)
      ELSE addValue(popped, s.currentVar_, s.tokens_[Len(s.tokens_)])

\* DoesBuiltin::exec
DoesExec(s, b) ==
  IF s.currentVar_ = 0 THEN Error(s, "No current variable", <<>>)
  ELSE [s EXCEPT !.heap[s.currentVar_].execTokens = b.body]

\* Builtin::exec of the built-in b
BuiltinExec(s, b) ==
  CASE b.name = n_DUP ->
         IF s.tokens_ = <<>> THEN Error(s, "STACK EMPTY", <<>>)
         ELSE pushToken(s, s.tokens_[Len(s.tokens_)])
    [] b.name = n_DROP ->
         IF s.tokens_ = <<>> THEN Error(s, "STACK EMPTY", <<>>)
         ELSE [s EXCEPT !.tokens_ = SubSeq(@, 1, Len(@) - 1)]
    [] b.name = n_SWAP ->
         IF Len(s.tokens_) < 2 THEN Error(s, "STACK EMPTY", <<>>)
         ELSE [s EXCEPT !.tokens_ = SubSeq(@, 1, Len(@) - 2)
                                    \o <<@[Len(@)], @[Len(@) - 1]>>]
    [] b.name = n_OVER ->
         IF Len(s.tokens_) < 2 THEN Error(s, "STACK UNDERFLOW", <<>>)
         ELSE pushToken(s, s.tokens_[Len(s.tokens_) - 1])
    [] b.name \in {n_PLUS, n_MINUS} -> PlusMinus(s, b.name)
    [] b.name \in {n_TIMES, n_DIV, n_MAX, n_MIN, n_LESS, n_EQUAL, n_GREATER, n_ULESS} ->
         BinaryOp(s, b.name)
    [] b.name = n_ROT -> RotExec(s)
    [] b.name = n_PICK -> PickExec(s)
    [] b.name = n_ROLL -> RollExec(s)
    [] b.name = n_DEPTH -> DepthExec(s)
    [] b.name = n_FETCH -> FetchExec(s)
    [] b.name = n_PLOT -> PlotExec(s)
    [] b.name = n_MOVE -> MoveExec(s)
    [] b.name = n_FILL -> FillExec(s)
    [] b.name = n_ALLOT -> AllotExec(s)
    [] b.name = n_ADDSTORE -> AddStoreExec(s)
    [] b.name = n_STORE -> StoreExec(s)
    [] b.name = n_PRINT -> PrintExec(s)
    [] b.name = n_DO -> DoExec(s, b)
    [] b.name = n_I -> IExec(s)
    [] b.name = n_J -> JExec(s)
    [] b.name = n_IF -> IfExec(s, b)
    [] b.name \in {n_LOOP, n_ILOOP, n_ELSE, n_THEN, n_UNTIL, n_WHILE, n_REPEAT} -> s
    [] b.name = n_LEAVE -> LeaveExec(s)
    [] b.name = n_BEGIN -> BeginExec(s, b)
    [] b.name = n_CREATE -> CreateExec(s)
    [] b.name = n_COMMA -> CommaExec(s)
    [] b.name = n_DOES -> DoesExec(s, b)
    [] b.name = n_LOAD -> LoadExec(s, b)
    [] b.name = n_DEFINE -> DefineExec(s)
    [] b.name = n_VARIABLE -> VariableExec(s)
    [] b.name = n_CONSTANT -> ConstantExec(s)
    [] b.name = n_FORGET -> ForgetExec(s)
    [] b.name = n_ABORT -> AbortExec(s)
    [] b.name = n_QUIT -> QuitExec(s)
    [] b.name = n_QDUP -> QDupExec(s)
    [] b.name = n_POP_RET -> PopRetExec(s)
    [] b.name = n_PUSH_RET -> PushRetExec(s)
    [] b.name = n_COPY_RET -> CopyRetExec(s)
    [] b.name = n_DECIMAL -> DecimalExec(s)
    [] b.name = n_MOD -> ModExec(s, FALSE)
    [] b.name = n_DMOD -> ModExec(s, TRUE)
    [] OTHER -> Error(s, "Not implemented", <<>>)

\* Token::isBlock: the built-ins DO, IF and BEGIN
isBlock(token) ==
  token.type = "builtin" /\ token.name \in {n_DO, n_IF, <<"B","E","G","I","N">>}

\* execToken: execTokens_.push_back(token) of a block; every token executed
\* uses up one unit of the call's fuel
execPush(s, token) ==
  [s EXCEPT !.fuel = @ - 1, !.sig = NoSig,
            !.execTokens_ = IF isBlock(token) THEN Append(@, token) ELSE @]

\* execToken: execTokens_.pop_back() after a block's exec has returned
execPop(s, token) ==
  IF ~(isBlock(token) /\ s.ret \in {"ok", "err"}) THEN s
  ELSE IF s.execTokens_ # <<>> THEN [s EXCEPT !.execTokens_ = SubSeq(@, 1, Len(@) - 1)]
  ELSE IF s.ub = "crash" THEN [s EXCEPT !.ret = "crash"]
  ELSE [s EXCEPT !.execTokens_ = <<GarbageToken>>]

\* execToken with the fault of a variable's DOES> body run before the variable
\* is pushed and made the current variable
execTokenBodyFirst(s, token) ==
  LET ran(s1) ==
        IF s1.ret # "ok" THEN s1 ELSE [pushToken(s1, token) EXCEPT !.currentVar_ = token.id]
  IN  IF s.fuel = 0 THEN [s EXCEPT !.ret = "run"]
      ELSE IF token.type = "builtin"
      THEN execPop(BuiltinExec(execPush(s, token), token), token)
      ELSE IF token.type = "proc" THEN ExecTokens(execPush(s, token), token.body, 1)
      ELSE IF token.type = "var"
      THEN ran(ExecTokens(execPush(s, token), s.heap[token.id].execTokens, 1))
      ELSE pushToken(execPush(s, token), token)

\* execToken
execToken(s, token) ==
  IF s.fuel = 0 THEN [s EXCEPT !.ret = "run"]
  ELSE IF token.type = "builtin"
  THEN execPop(BuiltinExec(execPush(s, token), token), token)
  ELSE IF token.type = "proc" THEN ExecTokens(execPush(s, token), token.body, 1)
  ELSE IF token.type = "var"
  THEN ExecTokens([pushToken(execPush(s, token), token) EXCEPT !.currentVar_ = token.id],
                  s.heap[token.id].execTokens, 1)
  ELSE pushToken(execPush(s, token), token)

\* parseToken: s.tok is the token, the null token when no word is left
parseToken(s) ==
  LET word == readWord(s)
  IN  IF ~word.ok THEN [word EXCEPT !.tok = NullToken]
      ELSE parseWord(word, word.word.value)

\* parseTokens: one pass of the for (;;) loop after fillBuffer, s1 being the
\* state the token was parsed in and s the state after parseToken
parseTokensExec(s1, s) ==
  LET place(run) == [str |-> s1.line_.str, pos |-> s1.line_.pos, run |-> run]
  IN  IF s.ret # "ok" THEN [s EXCEPT !.trace = Append(@, place(FALSE))]
      ELSE IF s.tok.type = "null" THEN s
      ELSE parseTokens(execToken([s EXCEPT !.trace = Append(@, place(TRUE))], s.tok))

\* parseTokens
parseTokens(s) ==
  LET filled == fillBuffer(s)
  IN  IF s.ret # "ok" THEN s
      ELSE IF ~filled.ok THEN filled
      ELSE parseTokensExec(filled, parseToken(filled))

\* parseFile
parseFile(s, filename) ==
  LET opened == [s EXCEPT !.file_ = FileOpen(MkFile(filename))]
      parsed(s2) ==
        IF s2.ret \in {"err", "run", "crash"} THEN s2
        ELSE [s2 EXCEPT !.ret = "ok", !.out = @ \o <<"o", "k", NL>>,
                        !.file_ = FileClose(s2.file_)]
  IN  IF ~opened.file_.open THEN Error(opened, "Failed to open", filename)
      ELSE parsed(parseTokens(opened))

\* parseLine
parseLine(s, line) ==
  LET parsed(s1) == IF s1.ret \in Signals THEN [s1 EXCEPT !.ret = "ok"] ELSE s1
  IN  parsed(parseTokens([s EXCEPT !.lines_ = Append(@, MkLine(line))]))

\* ------------------------------------------------------------ the machine
VARIABLES file_, lines_, line_, tokens_, execTokens_, retTokens_, variables_,
          procedures_, builtins_, currentVar_, lastError_, heap, nobj, leave,
          out, trace, sig, result, calls, input

vars == <<file_, lines_, line_, tokens_, execTokens_, retTokens_, variables_,
          procedures_, builtins_, currentVar_, lastError_, heap, nobj, leave,
          out, trace, sig, result, calls, input>>

\* the interpreter state at the start of a driver call
St ==
  [file_ |-> file_, lines_ |-> lines_, line_ |-> line_, tokens_ |-> tokens_,
   execTokens_ |-> execTokens_, retTokens_ |-> retTokens_, variables_ |-> variables_,
   procedures_ |-> procedures_, builtins_ |-> builtins_, currentVar_ |-> currentVar_,
   lastError_ |-> lastError_, heap |-> heap, nobj |-> nobj, leave |-> leave,
   out |-> <<>>, trace |-> <<>>, sig |-> NoSig, fuel |-> MaxFuel, ub |-> "crash",
   ret |-> "ok", ok |-> TRUE, tok |-> NullToken, word |-> [valid |-> FALSE, value |-> <<>>]]

\* the globals after a driver call that ended in the interpreter state r;
\* out, trace and sig are those of that call, result is what it returned
Becomes(r) ==
  /\ file_' = r.file_
  /\ lines_' = r.lines_
  /\ line_' = r.line_
  /\ tokens_' = r.tokens_
  /\ execTokens_' = r.execTokens_
  /\ retTokens_' = r.retTokens_
  /\ variables_' = r.variables_
  /\ procedures_' = r.procedures_
  /\ builtins_' = r.builtins_
  /\ currentVar_' = r.currentVar_
  /\ lastError_' = r.lastError_
  /\ heap' = r.heap
  /\ nobj' = r.nobj
  /\ leave' = r.leave
  /\ out' = r.out
  /\ trace' = r.trace
  /\ sig' = r.sig
  /\ result' = r.ret

\* init(): BASE is defined as 10; there is no ~/.CForth
Init ==
  /\ file_ = NoFile
  /\ lines_ = <<>>
  /\ line_ = MkLine(<<>>)
  /\ tokens_ = <<>>
  /\ execTokens_ = <<>>
  /\ retTokens_ = <<>>
  /\ variables_ = (n_BASE :> <<1>>)
  /\ procedures_ = << >>
  /\ builtins_ = {}
  /\ currentVar_ = 0
  /\ lastError_ = [msg |-> "", arg |-> <<>>]
  /\ heap = (1 :> [NewVariable(n_BASE) EXCEPT !.values = <<makeInteger(10)>>])
  /\ nobj = 1
  /\ leave = {}
  /\ out = <<>>
  /\ trace = <<>>
  /\ sig = NoSig
  /\ result = "ok"
  /\ calls = 0
  /\ input = [call |-> "none", arg |-> <<>>]

\* a driver call can be made: the process lives and the call before returned
CanCall == calls < MaxCalls /\ result \in {"ok", "err"}

\* main's loop: CForth::parseLine(line)
ParseLine(l) ==
  /\ CanCall
  /\ Becomes(parseLine(St, l))
  /\ calls' = calls + 1
  /\ input' = [call |-> "parseLine", arg |-> l]

\* CForth::parseLine(line) in a session where a vector may be accessed outside
\* its elements: ub is what such an access does in this call
ParseLineUB(l) ==
  \E ub \in Outcomes :
    /\ CanCall
    /\ Becomes(parseLine([St EXCEPT !.ub = ub], l))
    /\ calls' = calls + 1
    /\ input' = [call |-> "parseLine", arg |-> l]

\* processFile: CForth::parseFile(filename)
ParseFile(f) ==
  /\ CanCall
  /\ Becomes(parseFile(St, f))
  /\ calls' = calls + 1
  /\ input' = [call |-> "parseFile", arg |-> f]

\* ----------------------------------------------------------------- inputs
\* the input lines given to parseLine
\* : FACT DUP 1 > IF DUP 1 - FACT * ELSE DROP 1 THEN ; 5 FACT .
l_Fact ==
  <<":"," ","F","A","C","T"," ","D","U","P"," ","1"," ",">"," ","I","F"," ","D","U","P",
    " ","1"," ","-"," ","F","A","C","T"," ","*"," ","E","L","S","E"," ","D","R","O","P",
    " ","1"," ","T","H","E","N"," ",";"," ","5"," ","F","A","C","T"," ",".">>
\* VARIABLE N : N 7 ;
l_VarProc ==
  <<"V","A","R","I","A","B","L","E"," ","N"," ",":"," ","N"," ","7"," ",";">>
\* : N 7 ; VARIABLE N
l_ProcVar ==
  <<":"," ","N"," ","7"," ",";"," ","V","A","R","I","A","B","L","E"," ","N">>
\* FORGET N
l_Forget ==
  <<"F","O","R","G","E","T"," ","N">>
\* FORGET N 4
l_Forget4 ==
  <<"F","O","R","G","E","T"," ","N"," ","4">>
\* VARIABLE DUP
l_VarDup ==
  <<"V","A","R","I","A","B","L","E"," ","D","U","P">>
\* : DUP 7 ;
l_ProcDup ==
  <<":"," ","D","U","P"," ","7"," ",";">>
\* 8 CONSTANT 5
l_Const5 ==
  <<"8"," ","C","O","N","S","T","A","N","T"," ","5">>
\* : 5 7 ;
l_Proc5 ==
  <<":"," ","5"," ","7"," ",";">>
\* 16 BASE !
l_Hex ==
  <<"1","6"," ","B","A","S","E"," ","!">>
\* 10 0 DO I . -1 +LOOP
l_Countdown ==
  <<"1","0"," ","0"," ","D","O"," ","I"," ","."," ","-","1"," ","+","L","O","O","P">>
\* 0 10 DO I . -1 +LOOP
l_Down ==
  <<"0"," ","1","0"," ","D","O"," ","I"," ","."," ","-","1"," ","+","L","O","O","P">>
\* 5 2 DO I . LOOP
l_Do52 ==
  <<"5"," ","2"," ","D","O"," ","I"," ","."," ","L","O","O","P">>
\* 3 1 DO I . LOOP
l_Do31 ==
  <<"3"," ","1"," ","D","O"," ","I"," ","."," ","L","O","O","P">>
\* 2 5 DO I . LOOP
l_Do25 ==
  <<"2"," ","5"," ","D","O"," ","I"," ","."," ","L","O","O","P">>
\* 4 3 1 0 DO ABORT LOOP 8
l_Abort ==
  <<"4"," ","3"," ","1"," ","0"," ","D","O"," ","A","B","O","R","T"," ","L","O","O","P",
    " ","8">>
\* 4 3 1 0 DO QUIT LOOP 8
l_Quit ==
  <<"4"," ","3"," ","1"," ","0"," ","D","O"," ","Q","U","I","T"," ","L","O","O","P"," ",
    "8">>
\* : P LOAD f 5 ;
l_DefP ==
  <<":"," ","P"," ","L","O","A","D"," ","f"," ","5"," ",";">>
\* : Q LOAD g 5 ;
l_DefQ ==
  <<":"," ","Q"," ","L","O","A","D"," ","g"," ","5"," ",";">>
\* P
l_P ==
  <<"P">>
\* Q
l_Q ==
  <<"Q">>
\* 1 @ 6
l_Fail ==
  <<"1"," ","@"," ","6">>
\* 2 .
l_Two ==
  <<"2"," ",".">>

\* LOAD k 5 .
l_LoadK5 ==
  <<"L","O","A","D"," ","k"," ","5"," ",".">>
\* LOAD x 5
l_LoadX5 ==
  <<"L","O","A","D"," ","x"," ","5">>

\* 2 0 DO 2 0 DO J . I . LOOP LOOP
l_Nested ==
  <<"2"," ","0"," ","D","O"," ","2"," ","0"," ","D","O"," ","J"," ","."," ","I"," ","."," ",
    "L","O","O","P"," ","L","O","O","P">>
\* 2 0 DO 7 >R I . R> DROP LOOP
l_DoRI ==
  <<"2"," ","0"," ","D","O"," ","7"," ",">","R"," ","I"," ","."," ","R",">"," ","D","R","O",
    "P"," ","L","O","O","P">>
\* 2 0 DO 7 >R R> DROP I . LOOP
l_DoRBal ==
  <<"2"," ","0"," ","D","O"," ","7"," ",">","R"," ","R",">"," ","D","R","O","P"," ","I"," ",
    "."," ","L","O","O","P">>
\* 5 ?DUP
l_QDup5 ==
  <<"5"," ","?","D","U","P">>
\* 0 ?DUP
l_QDup0 ==
  <<"0"," ","?","D","U","P">>
\* 5 >R R@
l_RFetch ==
  <<"5"," ",">","R"," ","R","@">>
\* 3 1 do i . loop
l_doLower ==
  <<"3"," ","1"," ","d","o"," ","i"," ","."," ","l","o","o","p">>
\* 1 2 < 3 4 < =
l_CmpBool ==
  <<"1"," ","2"," ","<"," ","3"," ","4"," ","<"," ","=">>
\* 16 BASE ! DECIMAL
l_HexDecimal ==
  <<"1","6"," ","B","A","S","E"," ","!"," ","D","E","C","I","M","A","L">>

\* 16 BASE ! 255 . DECIMAL
l_HexPrint ==
  <<"1","6"," ","B","A","S","E"," ","!"," ","2","5","5"," ","."," ","D","E","C","I","M","A",
    "L">>
\* 255 16 BASE ! . DECIMAL
l_PrintHex ==
  <<"2","5","5"," ","1","6"," ","B","A","S","E"," ","!"," ","."," ","D","E","C","I","M","A",
    "L">>
\* 1 2 < BASE !
l_BoolBase ==
  <<"1"," ","2"," ","<"," ","B","A","S","E"," ","!">>
\* 5 0 MOD
l_ModZero ==
  <<"5"," ","0"," ","M","O","D">>
\* 5 0 /MOD
l_DModZero ==
  <<"5"," ","0"," ","/","M","O","D">>
\* -7 2 MOD . -7 2 /MOD . .
l_Mod ==
  <<"-","7"," ","2"," ","M","O","D"," ","."," ","-","7"," ","2"," ","/","M","O","D"," ",".",
    " ",".">>

\* the session that defines, shadows and forgets names
DictLines ==
  {l_Fact, l_VarProc, l_ProcVar, l_Forget, l_Forget4, l_VarDup, l_ProcDup, l_Const5,
   l_Proc5, l_Hex}

Next == \E l \in DictLines : ParseLine(l)

Spec == Init /\ [][Next]_vars

\* the session that runs DO loops
LoopLines == {l_Countdown, l_Down, l_Do52, l_Do31, l_Do25, l_Fail, l_Two}

NextLoop == \E l \in LoopLines : ParseLine(l)

SpecLoop == Init /\ [][NextLoop]_vars

\* the session that aborts, quits, fails and loads files
SignalLines == {l_Abort, l_Quit, l_DefP, l_DefQ, l_P, l_Q, l_Fail, l_Two}

NextSignal ==
  \/ \E l \in SignalLines : ParseLine(l)
  \/ \E f \in {w_f, w_g, w_h} : ParseFile(f)

SpecSignal == Init /\ [][NextSignal]_vars

\* the session that loads files from lines and from files
LoadLines == {l_LoadK5, l_LoadX5, l_Two}

NextLoad ==
  \/ \E l \in LoadLines : ParseLine(l)
  \/ \E f \in {w_f, w_h, w_k, w_m} : ParseFile(f)

SpecLoad == Init /\ [][NextLoad]_vars

\* the session that runs the stack, loop-index, comparison and radix words
WordLines ==
  {l_Nested, l_DoRI, l_DoRBal, l_QDup5, l_QDup0, l_RFetch, l_doLower, l_CmpBool,
   l_HexDecimal, l_Two}

NextWords == \E l \in WordLines : ParseLine(l)

SpecWords == Init /\ [][NextWords]_vars

\* the session that changes the radix and divides
RadixLines ==
  {l_HexPrint, l_PrintHex, l_BoolBase, l_ModZero, l_DModZero, l_Mod, l_Hex, l_Two}

NextRadix == \E l \in RadixLines : ParseLine(l)

SpecRadix == Init /\ [][NextRadix]_vars

\* the integers and the bases the number conversions are applied to
RoundTripIntegers == {0, 1, 9, 10, 35, 36, 255, INT_MAX, -1, -255, INT_MIN + 1, INT_MIN}

RoundTripBases == 2..36

\* what toBaseString(base, integer) can return: for INT_MIN the negation
\* overflows and base_chars is then read outside its bounds, which ends the
\* process ("crash") or yields some character
ToBaseStrings(base, integer) ==
  IF integer = INT_MIN THEN {"crash", <<NUL, "-">>, <<"0", "-">>}
  ELSE {toBaseString(base, integer)}

\* toBaseString(base, integer), and the string then read by readNumberToken
\* under the same base: out is the string, tokens_ holds the token read
RoundTrip(base, integer) ==
  /\ input.call = "none"
  /\ \E str \in ToBaseStrings(base, integer) :
       IF str = "crash"
       THEN out' = <<>> /\ result' = "crash" /\ tokens_' = <<>>
       ELSE /\ out' = str
            /\ result' = IF readNumberToken(str, base).ok THEN "ok" ELSE "err"
            /\ tokens_' = IF readNumberToken(str, base).ok
                          THEN <<readNumberToken(str, base).tok>> ELSE <<>>
  /\ input' = [call |-> "toBaseString", arg |-> <<base, integer>>]
  /\ UNCHANGED <<file_, lines_, line_, execTokens_, retTokens_, variables_, procedures_,
                 builtins_, currentVar_, lastError_, heap, nobj, leave, trace, sig, calls>>

NextRoundTrip == \E base \in RoundTripBases : \E integer \in RoundTripIntegers :
                   RoundTrip(base, integer)

SpecRoundTrip == Init /\ [][NextRoundTrip]_vars

\* ---------------------------------------------- bodies and DOES> variables
\* : P 7 . 1 @ 8 . ; P 9 .
l_ErrProc ==
  <<":"," ","P"," ","7"," ","."," ","1"," ","@"," ","8"," ","."," ",";"," ","P"," ","9"," ",".">>
\* 2 0 DO 7 . 1 @ 8 . LOOP 9 .
l_ErrDo ==
  <<"2"," ","0"," ","D","O"," ","7"," ","."," ","1"," ","@"," ","8"," ","."," ","L","O","O","P"," ","9"," ",".">>
\* 1 IF 7 . 1 @ 8 . THEN 9 .
l_ErrIf ==
  <<"1"," ","I","F"," ","7"," ","."," ","1"," ","@"," ","8"," ","."," ","T","H","E","N"," ","9"," ",".">>
\* BEGIN 7 . 1 @ 8 . 1 UNTIL 9 .
l_ErrBegin ==
  <<"B","E","G","I","N"," ","7"," ","."," ","1"," ","@"," ","8"," ","."," ","1"," ","U","N","T","I","L"," ","9"," ",".">>
\* : MKE CREATE DOES> 7 . 1 @ 8 . ; MKE E E 9 .
l_ErrDoes ==
  <<":"," ","M","K","E"," ","C","R","E","A","T","E"," ","D","O","E","S",">"," ","7"," ","."," ","1"," ","@"," ","8"," ","."," ",";"," ","M","K","E"," ","E"," ","E"," ","9"," ",".">>
\* : N 2 0 DO 1 IF 7 . 1 @ 8 . THEN 8 . LOOP 8 . ; N 9 .
l_ErrNested ==
  <<":"," ","N"," ","2"," ","0"," ","D","O"," ","1"," ","I","F"," ","7"," ","."," ","1"," ","@"," ","8"," ","."," ","T","H","E","N"," ","8"," ","."," ","L","O","O","P"," ","8"," ","."," ",";"," ","N"," ","9"," ",".">>
\* : MK CREATE 0 , DOES> 7 , @ . ; MK X MK Y
l_Mk ==
  <<":"," ","M","K"," ","C","R","E","A","T","E"," ","0"," ",","," ","D","O","E","S",">"," ","7"," ",","," ","@"," ","."," ",";"," ","M","K"," ","X"," ","M","K"," ","Y">>
\* X
l_X ==
  <<"X">>
\* : Q X 8 . ; Q
l_QX ==
  <<":"," ","Q"," ","X"," ","8"," ","."," ",";"," ","Q">>
\* VARIABLE V V
l_VV ==
  <<"V","A","R","I","A","B","L","E"," ","V"," ","V">>

\* the session that runs failing bodies and variables with a DOES> body
BodyLines ==
  {l_ErrProc, l_ErrDo, l_ErrIf, l_ErrBegin, l_ErrDoes, l_ErrNested,
   l_Mk, l_X, l_QX, l_VV}

NextBodies == \E l \in BodyLines : ParseLine(l)

SpecBodies == Init /\ [][NextBodies]_vars

\* ------------------------------------------------------- counted loops
\* the largest limit of the DO loops of the counted-loop session
MaxLimit == 3

\* the line `l s DO I . LOOP`
DoLine(l, s) ==
  IntString(l) \o <<" ">> \o IntString(s)
    \o <<" ","D","O"," ","I"," ","."," ","L","O","O","P">>

\* the limits and start indices of the session: every s <= l from -1 on
DoLimits == {ls \in (-1..MaxLimit) \X (-1..MaxLimit) : ls[2] <= ls[1]}

NextDo == \E ls \in DoLimits : ParseLine(DoLine(ls[1], ls[2]))

SpecDo == Init /\ [][NextDo]_vars

\* ------------------------------------------------- LEAVE and BEGIN loops
\* 2 0 DO 2 0 DO I . LEAVE 9 . LOOP 8 . LOOP
l_LeaveNested ==
  <<"2"," ","0"," ","D","O"," ","2"," ","0"," ","D","O"," ","I"," ","."," ","L","E","A","V","E"," ","9"," ","."," ","L","O","O","P"," ","8"," ","."," ","L","O","O","P">>
\* LEAVE
l_Leave ==
  <<"L","E","A","V","E">>
\* 2 0 DO I . LEAVE 9 . LOOP 8 .
l_LeaveDo ==
  <<"2"," ","0"," ","D","O"," ","I"," ","."," ","L","E","A","V","E"," ","9"," ","."," ","L","O","O","P"," ","8"," ",".">>
\* 3 0 DO 1 LEAVE +LOOP
l_LeaveILoop ==
  <<"3"," ","0"," ","D","O"," ","1"," ","L","E","A","V","E"," ","+","L","O","O","P">>
\* 0 BEGIN 1 + DUP . DUP 2 = UNTIL DROP
l_Until ==
  <<"0"," ","B","E","G","I","N"," ","1"," ","+"," ","D","U","P"," ","."," ","D","U","P"," ","2"," ","="," ","U","N","T","I","L"," ","D","R","O","P">>
\* BEGIN 7 . 1 UNTIL
l_UntilOnce ==
  <<"B","E","G","I","N"," ","7"," ","."," ","1"," ","U","N","T","I","L">>
\* 0 BEGIN DUP 2 = WHILE 1 + DUP . REPEAT DROP
l_While ==
  <<"0"," ","B","E","G","I","N"," ","D","U","P"," ","2"," ","="," ","W","H","I","L","E"," ","1"," ","+"," ","D","U","P"," ","."," ","R","E","P","E","A","T"," ","D","R","O","P">>
\* BEGIN 7 . 1 WHILE 8 . REPEAT 9 .
l_WhileTrue ==
  <<"B","E","G","I","N"," ","7"," ","."," ","1"," ","W","H","I","L","E"," ","8"," ","."," ","R","E","P","E","A","T"," ","9"," ",".">>

\* the session that leaves DO loops and runs BEGIN loops
LeaveLines ==
  {l_LeaveNested, l_Leave, l_LeaveDo, l_LeaveILoop, l_Until, l_UntilOnce,
   l_While, l_WhileTrue, l_Two}

NextLeave == \E l \in LeaveLines : ParseLine(l)

SpecLeave == Init /\ [][NextLeave]_vars

\* ------------------------------------------------- compiled definitions
\* : P 7 . ; : Q P 8 . ;
l_DefPQ ==
  <<":"," ","P"," ","7"," ","."," ",";"," ",":"," ","Q"," ","P"," ","8"," ","."," ",";">>
\* : P 9 . ;
l_RedefP ==
  <<":"," ","P"," ","9"," ","."," ",";">>
\* FORGET P
l_ForgetP ==
  <<"F","O","R","G","E","T"," ","P">>
\* : R 7 ZZ 8 ;
l_DefBad ==
  <<":"," ","R"," ","7"," ","Z","Z"," ","8"," ",";">>

\* the session that compiles a procedure into another and then redefines or
\* forgets it, and compiles a body with an unknown word
BindLines == {l_DefPQ, l_RedefP, l_ForgetP, l_DefBad, l_P, l_Q}

NextBind == \E l \in BindLines : ParseLine(l)

SpecBind == Init /\ [][NextBind]_vars

\* ------------------------------------------------------------ stack words
\* the number of calls of the stack-word session
MaxStackCalls == 2

\* the stack, arithmetic and comparison words of the session
StackWords ==
  {n_DUP, n_DROP, n_SWAP, n_OVER, n_ROT, n_PICK, n_ROLL, n_DEPTH, n_POP_RET, n_PUSH_RET,
   n_PLUS, n_MINUS, n_TIMES, n_DIV, n_MOD, n_MAX, n_MIN,
   n_LESS, n_EQUAL, n_GREATER, n_ULESS, n_DMOD}

\* the line `3 1 2 w`
StackLine(w) == <<"3"," ","1"," ","2"," ">> \o w

NextStack == \E w \in StackWords : calls < MaxStackCalls /\ ParseLineUB(StackLine(w))

SpecStack == Init /\ [][NextStack]_vars

\* ----------------------------------- the block and the return stacks
\* 1 IF LOAD f THEN
l_IfLoad ==
  <<"1"," ","I","F"," ","L","O","A","D"," ","f"," ","T","H","E","N">>
\* 2 0 DO 1 @ LOOP
l_ErrDoI ==
  <<"2"," ","0"," ","D","O"," ","1"," ","@"," ","L","O","O","P">>
\* I .
l_IDot ==
  <<"I"," ",".">>
\* 3 0 DO I LOOP
l_DoI ==
  <<"3"," ","0"," ","D","O"," ","I"," ","L","O","O","P">>
\* 2 0 DO LEAVE LOOP I
l_LeaveI ==
  <<"2"," ","0"," ","D","O"," ","L","E","A","V","E"," ","L","O","O","P"," ","I">>

\* the session that ends blocks and loops in every way
BlockLines == {l_IfLoad, l_Abort, l_Quit, l_ErrDoI, l_IDot, l_DoI, l_LeaveI, l_Two}

NextBlocks == \E l \in BlockLines : ParseLineUB(l)

SpecBlocks == Init /\ [][NextBlocks]_vars

\* ------------------------------------------- failing words and cells
\* 5 *
l_TimesOne ==
  <<"5"," ","*">>
\* 5 6 !
l_StoreNoRef ==
  <<"5"," ","6"," ","!">>
\* 5 ,
l_CommaNoVar ==
  <<"5"," ",",">>

\* VARIABLE A CREATE B 5 , 6 ,
l_DefAB ==
  <<"V","A","R","I","A","B","L","E"," ","A"," ","C","R","E","A","T","E"," ","B"," ","5"," ",","," ","6"," ",",">>
\* A B 2 MOVE
l_Move ==
  <<"A"," ","B"," ","2"," ","M","O","V","E">>
\* B A 1 MOVE
l_MoveOne ==
  <<"B"," ","A"," ","1"," ","M","O","V","E">>
\* 1 ALLOT
l_Allot ==
  <<"1"," ","A","L","L","O","T">>
\* B 2 7 FILL
l_Fill ==
  <<"B"," ","2"," ","7"," ","F","I","L","L">>
\* 9 B !
l_StoreB ==
  <<"9"," ","B"," ","!">>
\* 4 A +!
l_AddStoreA ==
  <<"4"," ","A"," ","+","!">>
\* B 1 + @
l_FetchB1 ==
  <<"B"," ","1"," ","+"," ","@">>

\* the lines of the specification of the variable cells
CellLines ==
  {l_TimesOne, l_StoreNoRef, l_CommaNoVar, l_DefAB, l_Move, l_MoveOne, l_Allot, l_Fill,
   l_StoreB, l_AddStoreA, l_FetchB1}

NextCells == \E l \in CellLines : ParseLine(l)

SpecCells == Init /\ [][NextCells]_vars

\* ------------------------------------------- registration of built-ins
\* 1 DUP
l_OneDup ==
  <<"1"," ","D","U","P">>
\* 1 2 +
l_OnePlus ==
  <<"1"," ","2"," ","+">>
\* 1 2 3 PLOT
l_Plot ==
  <<"1"," ","2"," ","3"," ","P","L","O","T">>
\* : SQ DUP * ;
l_DefSq ==
  <<":"," ","S","Q"," ","D","U","P"," ","*"," ",";">>

\* defBuiltin<PlotBuiltin>() of the Qt front end's main
DefBuiltin ==
  /\ builtins_' = addBuiltin(St, n_PLOT).builtins_
  /\ input' = [call |-> "defBuiltin", arg |-> n_PLOT]
  /\ UNCHANGED <<file_, lines_, line_, tokens_, execTokens_, retTokens_, variables_,
                 procedures_, currentVar_, lastError_, heap, nobj, leave, out, trace,
                 sig, result, calls>>

\* the lines of the specification of the registration
RegisterLines == {l_OneDup, l_OnePlus, l_Plot, l_DefSq, l_Two}

NextRegister == DefBuiltin \/ \E l \in RegisterLines : ParseLine(l)

SpecRegister == Init /\ [][NextRegister]_vars

\* ------------------------------------------------------- comparisons
\* the integers the comparisons are applied to
CompareIntegers == {-INT_MAX, -2, 0, 1, 2, INT_MAX}

\* the line `a b w` of a comparison word w
CompareLine(a, b, w) == IntString(a) \o <<SP>> \o IntString(b) \o <<SP>> \o w

NextCompare ==
  \E a \in CompareIntegers : \E b \in CompareIntegers : \E w \in {n_LESS, n_EQUAL, n_GREATER} :
    calls < MaxStackCalls /\ ParseLine(CompareLine(a, b, w))

SpecCompare == Init /\ [][NextCompare]_vars

\* ------------------------------------------------------------- properties
\* p is a prefix of the sequence q
IsPrefix(p, q) == Len(p) <= Len(q) /\ SubSeq(q, 1, Len(p)) = p

\* the last driver call was parseLine(l) and the first word it parsed was the
\* first word of l: nothing was left in the buffer by the calls before
Ran(l) ==
  /\ input.call = "parseLine"
  /\ input.arg = l
  /\ trace # <<>>
  /\ trace[1].str = l
  /\ trace[1].pos = 0

\* the last driver call was parseLine(l) and it parsed words of l alone
RanOnly(l) ==
  /\ Ran(l)
  /\ \A i \in 2..Len(trace) : trace[i].str = l /\ trace[i].pos > trace[i - 1].pos

\* a step that is the call parseLine(l) made with nothing left in the buffer
\* and no file open
Calls(l) ==
  /\ input'.call = "parseLine"
  /\ input'.arg = l
  /\ calls' = calls + 1
  /\ ~LineIsValid(line_)
  /\ lines_ = <<>>
  /\ ~file_.open

\* the objects that are the definitions of a name in variables_ / procedures_
VariableIds(map, name) ==
  IF MapHas(map, name) THEN {map[name][i] : i \in DOMAIN map[name]} ELSE {}
ProcedureIds(map, name) ==
  IF MapHas(map, name) THEN {map[name][i].id : i \in DOMAIN map[name]} ELSE {}

\* the object created last among the objects ids
Newest(ids) == CHOOSE x \in ids : \A y \in ids : y <= x

\* C1 as the specification states it: the line
\* `: FACT DUP 1 > IF DUP 1 - FACT * ELSE DROP 1 THEN ; 5 FACT .`, given when
\* no FACT is defined, is accepted and prints `120 `
C1_RecursiveDefinitionRuns ==
  Ran(l_Fact) => result = "ok" /\ out = <<"1","2","0"," ">>

\* C1, amended: a `:` definition cannot refer to its own name unless an older
\* definition of that name exists. Given when no FACT is defined, the line
\* fails while the body is compiled, with the error `FACT ?`; no procedure
\* FACT is defined, nothing is printed and the parameter stack is untouched
\* by the line (the rest of the line stays in the buffer)
C1_SelfReferenceRejected ==
  Ran(l_Fact) =>
    /\ result = "err"
    /\ lastError_ = [msg |-> "?", arg |-> <<"F","A","C","T">>]
    /\ ~MapHas(procedures_, <<"F","A","C","T">>)
    /\ out = <<>>
    /\ Len(trace) = 1
    /\ LineIsValid(line_)

\* C1's case: the FACT line was given with an empty buffer and failed
C1_Witness ==
  Ran(l_Fact) /\ result = "err" /\ lastError_.arg = <<"F","A","C","T">>

\* the output `10 9 8 7 6 5 4 3 2 1 `
Expected10 ==
  <<"1","0"," ","9"," ","8"," ","7"," ","6"," ","5"," ","4"," ","3"," ","2"," ","1"," ">>

\* C2 as the specification states it: `10 0 DO I . -1 +LOOP` ends after
\* exactly 10 executions of the body with I = 10, 9, ..., 1
C2_CountdownFromTen ==
  RanOnly(l_Countdown) => result = "ok" /\ out = Expected10

\* C2, amended: it is `0 10 DO I . -1 +LOOP` (start index 10 on top, limit 0
\* beneath) that ends after exactly 10 executions of the body with
\* I = 10, 9, ..., 1; `10 0 DO I . -1 +LOOP` starts at I = 0 and counts
\* 0, -1, -2, ... away from its limit 10, and does not return within the
\* tokens a call is followed for
C2_CountdownToZero ==
  /\ RanOnly(l_Down) => result = "ok" /\ out = Expected10 /\ retTokens_ = <<>>
  /\ RanOnly(l_Countdown) =>
       result = "run" /\ IsPrefix(<<"0"," ","-","1"," ","-","2"," ">>, out)

\* C2's case: the loop from 10 down to the limit 0 has run and returned
C2_Witness ==
  RanOnly(l_Down) /\ result = "ok" /\ Len(out) = Len(Expected10)

\* C3 as the specification states it: DO pops the limit from the top and the
\* start index from beneath, so `5 2 DO I . LOOP` has the start index 5 and
\* prints 5 first
C3_LimitOnTop ==
  RanOnly(l_Do52) => out # <<>> /\ out[1] = "5"

\* C3, amended: DO takes the start index from the top of the parameter stack
\* and the limit from the item beneath it (the first token popped is the
\* start index): `5 2 DO I . LOOP` prints `2 3 4 `, `3 1 DO I . LOOP`
\* prints `1 2 `, and `2 5 DO I . LOOP` starts at 5 and counts 5, 6, ...
C3_StartOnTop ==
  /\ RanOnly(l_Do52) => result = "ok" /\ out = <<"2"," ","3"," ","4"," ">>
  /\ RanOnly(l_Do31) => result = "ok" /\ out = <<"1"," ","2"," ">>
  /\ RanOnly(l_Do25) => IsPrefix(<<"5"," ","6"," ">>, out)

\* C3's case: `5 2 DO I . LOOP` has run with the start index 2
C3_Witness ==
  RanOnly(l_Do52) /\ out # <<>> /\ out[1] = "2"

\* C4 as the specification states it: `FORGET N 4`, given when N has a
\* variable or procedure definition, returns success and the 4 after it is
\* run; it returns an error only when N has no definition
C4_ForgetOfDefinedSucceeds ==
  [][Calls(l_Forget4) =>
       IF MapHas(variables_, <<"N">>) \/ MapHas(procedures_, <<"N">>)
       THEN result' = "ok" /\ tokens_' = Append(tokens_, makeInteger(4))
       ELSE result' = "err"]_vars

Words6 == {n_DUP, <<"d","u","p">>, <<"5">>, <<"F">>, <<"N">>}

\* C6: parseWord resolves a word as a user variable first (a constant as its
\* value), else as a user procedure, else as a built-in, else as a number in
\* the current BASE, and fails with `<word> ?` only when all four fail
C6_LookupOrder ==
  \A w \in Words6 :
    LET r == parseWord(St, w)
        n == readNumberToken(w, getBase(St))
    IN  IF MapHas(variables_, w)
        THEN /\ r.ret = "ok"
             /\ IF heap[variables_[w][Len(variables_[w])]].constant
                THEN r.tok = heap[variables_[w][Len(variables_[w])]].values[1]
                ELSE r.tok.type = "var" /\ r.tok.id = variables_[w][Len(variables_[w])]
        ELSE IF MapHas(procedures_, w)
        THEN r.ret = "ok" /\ r.tok = procedures_[w][Len(procedures_[w])]
        ELSE IF toUpper(w) \in StdBuiltins
        THEN r.ret = "ok" /\ r.tok.type = "builtin" /\ r.tok.name = toUpper(w)
        ELSE IF n.ok
        THEN r.ret = "ok" /\ r.tok = n.tok
        ELSE r.ret = "err" /\ r.lastError_ = [msg |-> "?", arg |-> w]

\* C6's case: DUP is a variable, a procedure and a built-in at once, and 5 is
\* a procedure as well as a number
C6_Witness ==
  /\ MapHas(variables_, n_DUP)
  /\ MapHas(procedures_, n_DUP)
  /\ MapHas(procedures_, <<"5">>)
  /\ parseWord(St, n_DUP).tok.type = "var"
  /\ parseWord(St, <<"5">>).tok.type = "proc"

\* C7: a driver call whose last executed token is ABORT ends with the
\* parameter stack, the return stack and the block-execution stack empty; one
\* whose last executed token is QUIT ends with the return stack and the
\* block-execution stack empty and the parameter stack as QUIT found it; both
\* calls return success
C7_AbortQuitStacks ==
  /\ sig.kind = "abortSignal" =>
       tokens_ = <<>> /\ retTokens_ = <<>> /\ execTokens_ = <<>> /\ result = "ok"
  /\ sig.kind = "quitSignal" =>
       tokens_ = sig.tokens /\ retTokens_ = <<>> /\ execTokens_ = <<>> /\ result = "ok"

\* C7's case: QUIT has run inside a DO loop with 4 and 3 on the parameter stack
C7_Witness ==
  /\ Ran(l_Quit)
  /\ sig.kind = "quitSignal"
  /\ tokens_ = <<makeInteger(4), makeInteger(3)>>

\* C8 as the specification states it: the word after the loop that ABORT or
\* QUIT ended (the 8 that ends the lines l_Abort and l_Quit) is never run,
\* neither in that call nor in a later one
C8_RestOfLineAbandoned ==
  \A i \in DOMAIN trace :
    trace[i].str \in {l_Abort, l_Quit} /\ trace[i].run
      => trace[i].pos < Len(trace[i].str) - 1

\* C9 as the specification states it: when P is `LOAD f 5` and the file f
\* runs ABORT, the call P ends with the ABORT: neither the 5 after the LOAD
\* nor the rest of the file is run, so the parameter stack ends empty
C9_LoadedAbortUnwinds ==
  Ran(l_P) /\ MapHas(procedures_, <<"P">>) /\ result = "ok"
    => tokens_ = <<>> /\ sig.kind = "abortSignal"

\* C10 as the specification states it: the words after a failing word (the 6
\* after the failing @ of l_Fail) are discarded: no call ever parses them
C10_RestOfFailedLineDiscarded ==
  \A i \in DOMAIN trace : trace[i].str = l_Fail => trace[i].pos <= 2


\* the lines of a file as fillBuffer makes them the current line
FileLines(name) == {FileText(name)[i] : i \in DOMAIN FileText(name)}

\* C11 as the specification states it: in `LOAD k 5 .` every word of the file
\* k is run before the words that follow the filename, which run afterwards:
\* the call prints `7 6 `, the file's ok, and then `5 `
C11_LoadSuspendsLine ==
  Ran(l_LoadK5) =>
    /\ \A i, j \in DOMAIN trace :
         trace[i].str \in FileLines(w_k) /\ trace[j].str = l_LoadK5 /\ trace[j].pos > 0
           => i < j
    /\ out = <<"7"," ","6"," ","o","k",NL,"5"," ">>

\* the last driver call was parseFile(f) and the first word it parsed was the
\* first word of f: nothing was left in the buffer by the calls before
RanFile(f) ==
  /\ input.call = "parseFile"
  /\ input.arg = f
  /\ trace # <<>>
  /\ trace[1].str = FileText(f)[1]
  /\ trace[1].pos = 0

\* C12 as the specification states it: parseFile of m, whose first line is
\* `LOAD k` and whose second line is `8 .`, runs the second line after the
\* file k is exhausted: the call prints `7 6 `, k's ok, `8 ` and m's ok
C12_LoadingFileResumes ==
  RanFile(w_m) =>
    /\ \E i \in DOMAIN trace : trace[i].str = FileText(w_m)[2] /\ trace[i].run
    /\ out = <<"7"," ","6"," ","o","k",NL,"8"," ","o","k",NL>>

\* C13 as the specification states it: `LOAD x 5`, x being a file that cannot
\* be opened, fails with the error `Failed to open` of x, and the 5 after the
\* filename is not run
C13_LoadFailureReported ==
  Ran(l_LoadX5) =>
    /\ result = "err"
    /\ lastError_ = [msg |-> "Failed to open", arg |-> w_x]
    /\ \A i \in DOMAIN trace : trace[i].pos = 0

\* C14 as the specification states it: after any return of parseFile the file
\* is closed, and a following parseLine of `2 .` parses words of its own line
\* only, never a line of a file
C14_FileClosedAfterParseFile ==
  /\ input.call = "parseFile" => ~file_.open
  /\ input.call = "parseLine" /\ input.arg = l_Two =>
       \A i \in DOMAIN trace :
         trace[i].str \notin UNION {FileLines(f) : f \in {w_f, w_h, w_k, w_m}}

\* C15 as the specification states it: at every point of a DO body I gives
\* the current index of the innermost loop and J that of the next-outer loop:
\* `2 0 DO 2 0 DO J . I . LOOP LOOP` prints `0 0 0 1 1 0 1 1 `, and
\* `2 0 DO 7 >R I . R> DROP LOOP` prints `0 1 ` as `2 0 DO 7 >R R> DROP I . LOOP`
C15_IndexAtEveryPoint ==
  /\ RanOnly(l_Nested) =>
       out = <<"0"," ","0"," ","0"," ","1"," ","1"," ","0"," ","1"," ","1"," ">>
  /\ RanOnly(l_DoRI) => out = <<"0"," ","1"," ">>
  /\ RanOnly(l_DoRBal) => out = <<"0"," ","1"," ">>

\* C15, amended: I and J read the return stack by position (I the token second
\* from its top, J the fourth), so they give the index of the innermost and of
\* the next-outer loop wherever the body has left the return stack as the DOs
\* set it; after a >R that no R> has matched yet, I gives the loop's limit
C15_IndexWithBalancedReturnStack ==
  /\ RanOnly(l_Nested) =>
       /\ result = "ok"
       /\ out = <<"0"," ","0"," ","0"," ","1"," ","1"," ","0"," ","1"," ","1"," ">>
  /\ RanOnly(l_DoRBal) => result = "ok" /\ out = <<"0"," ","1"," ">>
  /\ RanOnly(l_DoRI) => result = "ok" /\ out = <<"2"," ","2"," ">>

\* C15's case: the nested loops have run to their end, printing J and I
C15_Witness ==
  RanOnly(l_Nested) /\ result = "ok" /\ Len(out) = 16

\* C16 as the specification states it: `5 ?DUP` leaves 5 twice on top of what
\* the parameter stack held, and `0 ?DUP` leaves the 0 on top of it
C16_QDupDuplicatesNonZero ==
  [][/\ Calls(l_QDup5) =>
          result' = "ok" /\ tokens_' = tokens_ \o <<makeInteger(5), makeInteger(5)>>
     /\ Calls(l_QDup0) =>
          result' = "ok" /\ tokens_' = Append(tokens_, makeInteger(0))]_vars

\* C17 as the specification states it: in `5 >R R@` the word R@ is a built-in
\* that copies the top of the return stack: the call succeeds with the 5 on
\* top of the parameter stack and still on top of the return stack
C17_RFetchCopiesReturnTop ==
  RanOnly(l_RFetch) =>
    /\ lookupBuiltin(St, <<"R","@">>)
    /\ result = "ok"
    /\ tokens_ # <<>> /\ tokens_[Len(tokens_)] = makeInteger(5)
    /\ retTokens_ # <<>> /\ retTokens_[Len(retTokens_)] = makeInteger(5)

\* C18 as the specification states it: the lowercase `3 1 do i . loop` is
\* compiled and run as `3 1 DO I . LOOP`: it prints `1 2 `
C18_LowercaseTerminators ==
  RanOnly(l_doLower) => result = "ok" /\ out = <<"1"," ","2"," ">>

\* C19 as the specification states it: `1 2 < 3 4 < =` compares the two
\* Booleans pushed by < and pushes the Boolean TRUE on what the stack held
C19_ComparisonsAcceptBooleans ==
  [][Calls(l_CmpBool) =>
       result' = "ok" /\ tokens_' = Append(tokens_, BooleanToken(TRUE))]_vars

\* C20 as the specification states it: after `16 BASE ! DECIMAL` the radix
\* is 10
C20_DecimalSetsBaseTen ==
  RanOnly(l_HexDecimal) /\ result = "ok" => getBase(St) = 10

\* C21 as the specification states it: `16 BASE ! 255 . DECIMAL`, given in
\* radix 10, prints `FF `
C21_PrintsFF ==
  [][Calls(l_HexPrint) /\ getBase(St) = 10 => out' = <<"F","F"," ">>]_vars

\* C21, amended: `16 BASE ! 255 . DECIMAL`, given in radix 10, prints `255 `:
\* the 255 after `16 BASE !` is read in radix 16 and printed in radix 16;
\* `255 16 BASE ! . DECIMAL`, whose 255 is read in radix 10, prints `FF `
C21_PrintsWhatWasReadInHex ==
  [][/\ Calls(l_HexPrint) /\ getBase(St) = 10 =>
          result' = "ok" /\ out' = <<"2","5","5"," ">>
     /\ Calls(l_PrintHex) /\ getBase(St) = 10 =>
          result' = "ok" /\ out' = <<"F","F"," ">>]_vars

\* C21's case: `16 BASE ! 255 . DECIMAL` was the first input and has printed
C21_Witness ==
  Ran(l_HexPrint) /\ calls = 1 /\ result = "ok" /\ out = <<"2","5","5"," ">>

\* C23 as the specification states it: in every reachable state the radix
\* getBase returns lies in 2..36
C23_BaseInRange ==
  getBase(St) \in 2..36

\* C24 as the specification states it: `5 0 MOD` and `5 0 /MOD` end with an
\* error returned to the driver, which can go on to the next input
C24_ModByZeroIsAnError ==
  (Ran(l_ModZero) \/ Ran(l_DModZero)) => result = "err" /\ CanCall

\* C22 as the specification states it: for every integer n and base b, the
\* string toBaseString(b, n) is read back under base b as the number n
C22_RoundTrip ==
  input.call = "toBaseString" =>
    result = "ok" /\ tokens_ = <<makeInteger(input.arg[2])>>

\* the lines whose body fails at its `1 @`, after `7 .` and before `8 .`:
\* a procedure body, a DO body, an IF body, a BEGIN body, a DOES> body, and
\* an IF body inside a DO body inside a procedure body
FailingBodyLines == {l_ErrProc, l_ErrDo, l_ErrIf, l_ErrBegin, l_ErrDoes, l_ErrNested}

\* C25: when a token inside a procedure body, a DO, IF or BEGIN body or a
\* DOES> body returns an error, no later token of that body or of an enclosing
\* body is executed (only the `7 ` before the failing token is printed, never
\* the `8 ` after it nor the `9 ` after the body) and the call returns that
\* error, here FetchBuiltin's `Not a variable`
C25_ErrorEndsBodies ==
  [][\A l \in FailingBodyLines :
       Calls(l) => /\ result' = "err"
                   /\ lastError_'.msg = "Not a variable"
                   /\ out' = <<"7"," ">>
                   /\ trace'[Len(trace')].run
                   /\ LineIsValid(line_')]_vars

C25_Witness ==
  /\ RanOnly(l_ErrNested)
  /\ result = "err"
  /\ lastError_.msg = "Not a variable"
  /\ out = <<"7"," ">>

\* the variables X and Y that `MK X MK Y` created last, each with the DOES>
\* body `7 , @ .`, and the variable V that `VARIABLE V` created last
XVar == variables_[<<"X">>][Len(variables_[<<"X">>])]
YVar == variables_[<<"Y">>][Len(variables_[<<"Y">>])]
VVar == variables_[<<"V">>][Len(variables_[<<"V">>])]
HasX == <<"X">> \in DOMAIN variables_ /\ variables_[<<"X">>] # <<>>

\* C30: a variable with a DOES> body that is executed, at top level (`X`) or
\* as a token of a compiled body (`: Q X 8 . ; Q`), is first pushed and made
\* the current variable, and then its body `7 , @ .` runs in order: the `,`
\* adds the 7 to X itself (not to Y, the current variable before), the `@`
\* finds X on the stack and the `.` prints X's first value; a variable
\* without a DOES> body (`VARIABLE V V`) is only pushed and made current
C30_DoesBodyRunsAfterPush ==
  [][/\ Calls(l_X) /\ HasX =>
          /\ result' = "ok"
          /\ out' = <<"0"," ">>
          /\ currentVar_' = XVar
          /\ tokens_' = tokens_
          /\ heap'[XVar].values = Append(heap[XVar].values, makeInteger(7))
          /\ heap'[YVar] = heap[YVar]
     /\ Calls(l_QX) /\ HasX =>
          /\ result' = "ok"
          /\ out' = <<"0"," ","8"," ">>
          /\ currentVar_' = XVar
          /\ tokens_' = tokens_
          /\ heap'[XVar].values = Append(heap[XVar].values, makeInteger(7))
          /\ heap'[YVar] = heap[YVar]
     /\ Calls(l_VV) =>
          /\ result' = "ok"
          /\ out' = <<>>
          /\ currentVar_' = VVar'
          /\ tokens_' = Append(tokens_, VariableToken(VVar'))
          /\ heap'[VVar'].values = <<makeInteger(0)>>]_vars

C30_Witness ==
  /\ RanOnly(l_QX)
  /\ HasX
  /\ result = "ok"
  /\ out = <<"0"," ","8"," ">>
  /\ currentVar_ = XVar
  /\ Len(heap[XVar].values) = 2

\* what `I .` prints for the indices s, s + 1, ..., l - 1 in order
RECURSIVE Indices(_, _)
Indices(s, l) == IF s >= l THEN <<>> ELSE IntString(s) \o <<" ">> \o Indices(s + 1, l)

\* C26: a DO ... LOOP entered with the Integer index s and the limit l, s <= l,
\* runs its body l - s times with the index taking s, s + 1, ..., l - 1 in
\* order (`I .` prints exactly these), zero times when s = l, and leaves the
\* return stack (and the parameter stack) as it was before the DO
C26_LoopRunsLimitMinusStartTimes ==
  [][\A ls \in DoLimits :
       Calls(DoLine(ls[1], ls[2])) =>
         /\ result' = "ok"
         /\ out' = Indices(ls[2], ls[1])
         /\ retTokens_' = retTokens_
         /\ tokens_' = tokens_]_vars

C26_Witness ==
  /\ Ran(DoLine(MaxLimit, -1))
  /\ result = "ok"
  /\ Len(out) = 2 * (MaxLimit + 1) + 1
  /\ out = Indices(-1, MaxLimit)
  /\ retTokens_ = <<>>

\* C27: LEAVE in the body of the inner of two nested DO loops (the line
\* `2 0 DO 2 0 DO I . LEAVE 9 . LOOP 8 . LOOP`) ends only the inner loop: the
\* flag of the inner DO (the second object the line creates) is the only one
\* set, and the outer loop goes on with its `8 .` and its second iteration;
\* LEAVE with no DO or BEGIN on the block-execution stack returns the error
\* `Leave not inside do` and sets no flag
C27_LeaveEndsInnerLoopOnly ==
  [][/\ Calls(l_LeaveNested) =>
          /\ result' = "ok"
          /\ out' = <<"0"," ","8"," ","0"," ","8"," ">>
          /\ leave' = leave \cup {nobj + 2}
          /\ nobj + 1 \notin leave'
     /\ Calls(l_Leave) /\ execTokens_ = <<>> =>
          /\ result' = "err"
          /\ lastError_'.msg = "Leave not inside do"
          /\ leave' = leave]_vars

C27_Witness ==
  /\ RanOnly(l_LeaveNested)
  /\ result = "ok"
  /\ out = <<"0"," ","8"," ","0"," ","8"," ">>
  /\ leave # {}

\* C28: after LEAVE has run as a token of a DO body the loop ends at once: no
\* further token of the body runs (`2 0 DO I . LEAVE 9 . LOOP 8 .` prints
\* `0 8 `), the index is not incremented (its box, the second object the line
\* creates, still holds 0) and a +LOOP pops no increment (`3 0 DO 1 LEAVE
\* +LOOP` leaves the 1 on the stack), no further iteration starts, and DO
\* returns success with its two return-stack entries removed
C28_LeaveEndsLoopAtOnce ==
  [][/\ Calls(l_LeaveDo) =>
          /\ result' = "ok"
          /\ out' = <<"0"," ","8"," ">>
          /\ heap'[nobj + 2].values = <<makeInteger(0)>>
          /\ retTokens_' = retTokens_
          /\ tokens_' = tokens_
     /\ Calls(l_LeaveILoop) =>
          /\ result' = "ok"
          /\ out' = <<>>
          /\ heap'[nobj + 2].values = <<makeInteger(0)>>
          /\ retTokens_' = retTokens_
          /\ tokens_' = Append(tokens_, makeInteger(1))]_vars

C28_Witness ==
  /\ RanOnly(l_LeaveILoop)
  /\ result = "ok"
  /\ tokens_ # <<>>
  /\ tokens_[Len(tokens_)] = makeInteger(1)
  /\ retTokens_ = <<>>

\* C29: BEGIN ... UNTIL runs its body and then pops a flag, and stops exactly
\* when the flag is true, so the body runs at least once (`BEGIN 7 . 1 UNTIL`
\* prints `7 `; the counting loop prints `1 2 `); BEGIN ... WHILE ... REPEAT
\* runs the tokens before WHILE, pops a flag, stops when the flag is true
\* (`BEGIN 7 . 1 WHILE 8 . REPEAT 9 .` prints `7 9 `) and otherwise runs the
\* tokens between WHILE and REPEAT and starts again (the counting loop prints
\* `1 2 `)
C29_BeginLoopsStopOnTrue ==
  [][/\ Calls(l_UntilOnce) =>
          result' = "ok" /\ out' = <<"7"," ">> /\ tokens_' = tokens_
     /\ Calls(l_Until) =>
          result' = "ok" /\ out' = <<"1"," ","2"," ">> /\ tokens_' = tokens_
     /\ Calls(l_WhileTrue) =>
          result' = "ok" /\ out' = <<"7"," ","9"," ">> /\ tokens_' = tokens_
     /\ Calls(l_While) =>
          result' = "ok" /\ out' = <<"1"," ","2"," ">> /\ tokens_' = tokens_]_vars

C29_Witness ==
  /\ RanOnly(l_While)
  /\ result = "ok"
  /\ out = <<"1"," ","2"," ">>

\* whether a procedure of that name is defined, and how many definitions of
\* it are on the dictionary
HasProcedure(name) == name \in DOMAIN procedures_ /\ procedures_[name] # <<>>
Definitions(name) == IF name \in DOMAIN procedures_ THEN Len(procedures_[name]) ELSE 0

\* C31: a procedure body is bound when it is compiled: once `: P 7 . ;
\* : Q P 8 . ;` has been compiled, Q prints `7 8 ` whatever has been done to P
\* since (P redefined as `: P 9 . ;`, P forgotten)
C31_BodyBoundAtCompileTime ==
  [][Calls(l_Q) /\ HasProcedure(<<"Q">>) =>
       result' = "ok" /\ out' = <<"7"," ","8"," ">> /\ tokens_' = tokens_]_vars

\* Q has run after P was redefined; P itself, run in the same state, prints `9 `
C31_Witness ==
  /\ RanOnly(l_Q)
  /\ calls = 3
  /\ Definitions(<<"P">>) = 2
  /\ result = "ok"
  /\ out = <<"7"," ","8"," ">>

\* C32: a `:` definition whose body contains a word that is no variable,
\* procedure, built-in or number (`: R 7 ZZ 8 ;`) fails at compile time with
\* `ZZ ?` and registers no procedure: the dictionaries of the variables and
\* of the procedures are as they were before the `:`
C32_UnknownWordFailsDefinition ==
  [][Calls(l_DefBad) =>
       /\ result' = "err"
       /\ lastError_' = [msg |-> "?", arg |-> <<"Z","Z">>]
       /\ procedures_' = procedures_
       /\ variables_' = variables_
       /\ out' = <<>>]_vars

C32_Witness ==
  /\ Ran(l_DefBad)
  /\ result = "err"
  /\ lastError_ = [msg |-> "?", arg |-> <<"Z","Z">>]
  /\ ~HasProcedure(<<"R">>)
  /\ HasProcedure(<<"Q">>)

\* the stack effect declared for a word: the change of the parameter stack's
\* depth
Net(w) ==
  CASE w \in {n_DUP, n_OVER, n_DEPTH, n_PUSH_RET} -> 1
    [] w \in {n_SWAP, n_ROT, n_PICK, n_DMOD} -> 0
    [] OTHER -> -1

\* C33: every successful execution of a stack, arithmetic or comparison word
\* changes the depth of the parameter stack by its declared effect: the line
\* `3 1 2 w`, which first pushes three numbers, changes it by 3 + Net(w)
C33_DeclaredStackEffect ==
  [][\A w \in StackWords :
       Calls(StackLine(w)) /\ result' = "ok" =>
         Len(tokens_') = Len(tokens_) + 3 + Net(w)]_vars

\* ROLL has succeeded on a stack that an earlier word had left
C33_Witness ==
  /\ RanOnly(StackLine(n_ROLL))
  /\ calls = 2
  /\ result = "ok"
  /\ Len(tokens_) > 2
  /\ tokens_[Len(tokens_)] = makeInteger(3)
  /\ tokens_[Len(tokens_) - 1] = makeInteger(1)

\* C34: the block-execution stack is empty whenever control is back in the
\* driver, after a success as after an error, an ABORT or a QUIT
C34_ExecStackEmptyInDriver ==
  result \in {"ok", "err"} => execTokens_ = <<>>

\* C35: whenever a DO loop has ended, normally, by LEAVE or because a token
\* of its body failed, its two return-stack entries are gone: an `I` run
\* afterwards outside any loop fails with `Not in DO`
C35_ReturnStackBalanced ==
  Ran(l_IDot) => result = "err" /\ lastError_.msg = "Not in DO"

\* C36: a value pushed by I keeps the index it had when it was pushed: after
\* `3 0 DO I LOOP` the three items on top of the stack are 0, 1, 2
C36_PushedIndexKept ==
  RanOnly(l_DoI) /\ result = "ok" =>
    /\ Len(tokens_) >= 3
    /\ Deref(St, tokens_[Len(tokens_) - 2]).val = 0
    /\ Deref(St, tokens_[Len(tokens_) - 1]).val = 1
    /\ Deref(St, tokens_[Len(tokens_)]).val = 2

\* C37: a built-in that fails, for too few operands or for an operand of the
\* wrong kind, leaves the parameter stack as it was before it ran: the stack
\* with the 5 after the `*` of `5 *` has failed on an empty stack, with the
\* 5 and the 6 after the `!` of `5 6 !`, and with the 5 after the `,` of `5 ,`
\* has failed for want of a current variable
C37_FailureLeavesStack ==
  [][/\ Calls(l_TimesOne) /\ tokens_ = <<>> /\ result' = "err" =>
          tokens_' = <<makeInteger(5)>>
     /\ Calls(l_StoreNoRef) /\ result' = "err" =>
          tokens_' = tokens_ \o <<makeInteger(5), makeInteger(6)>>
     /\ Calls(l_CommaNoVar) /\ currentVar_ = 0 /\ result' = "err" =>
          tokens_' = Append(tokens_, makeInteger(5))]_vars

\* C38: every cell of every variable holds a token (no cell is null) in
\* every reachable state, whatever `,`, ALLOT, `!`, `+!`, MOVE and FILL have run
C38_CellsHoldTokens ==
  \A id \in DOMAIN heap : \A i \in 1..Len(heap[id].values) : heap[id].values[i].type # "null"

\* C39: the standard built-ins are resolvable whatever the order of
\* registration: in every reachable state, a user built-in added before the
\* first lookup or not, lookupBuiltin finds DUP, + and every other standard
\* name (of those registered in upper case, the only ones a lookup asks for)
C39_StandardResolvable ==
  \A w \in StdBuiltins : toUpper(w) = w => lookupBuiltin(St, w)

\* C40: for all 32-bit integers a and b, `a b <` pushes TRUE exactly when
\* a < b and `a b >` pushes TRUE exactly when a > b, also when the difference
\* a - b does not fit in 32 bits
C40_ComparisonsExact ==
  [][\A a \in CompareIntegers : \A b \in CompareIntegers :
       /\ Calls(CompareLine(a, b, n_LESS)) /\ result' = "ok" =>
            tokens_' = Append(tokens_, BooleanToken(a < b))
       /\ Calls(CompareLine(a, b, n_GREATER)) /\ result' = "ok" =>
            tokens_' = Append(tokens_, BooleanToken(a > b))]_vars

====
